---- MODULE Spec2Model ----
(***************************************************************************)
(* Transcript alignment engine of the Lansingerland council scraper: the   *)
(* caption parser and its time parsers, alignTranscript, the two           *)
(* post-processing passes, validateAlignment and the end of scrapeAgenda.  *)
(*                                                                         *)
(* Times are JavaScript numbers holding seconds; a caption timestamp has   *)
(* millisecond resolution (seconds + ms / 1000), so every time is held     *)
(* here as an integer number of milliseconds.  Strings that the code       *)
(* inspects character by character (cue text) are sequences of one         *)
(* character strings; strings that are only built and compared are TLA+    *)
(* strings.                                                                *)
(***************************************************************************)
EXTENDS Integers, Sequences, FiniteSets, TLC

VARIABLES
  pc,            \* position in the run
  graceWindow,   \* TranscriptAligner.graceWindow, in ms
  agendaItems,   \* input: sequence of AgendaItem
  cues,          \* input: sequence of VTTCue
  allSpeakers,   \* alignTranscript: flattened, start-sorted speaker windows
  cueIdx,        \* alignTranscript: number of cues already handled
  segments,      \* the TranscriptSegment array built by alignTranscript
  alignLog,      \* per handled cue: what the two lookups returned
  preFill,       \* the segments as they were when fillSpeakerGaps started
  fillIdx,       \* fillSpeakerGaps: loop index i (0-based)
  fillPass,      \* how many times fillSpeakerGaps has been started
  mergeIn,       \* mergeShortSegments: the array it was called with
  current,       \* mergeShortSegments: the accumulator
  mergeIdx,      \* mergeShortSegments: loop index i (0-based)
  result,        \* mergeShortSegments: the result array
  mergeLog,      \* per loop iteration: accumulator, next, decision, outcome
  pass,          \* how many times mergeShortSegments has been started
  firstResult,   \* what the first mergeShortSegments call returned
  validation,    \* scrapeAgenda: what validateAlignment returned
  outputFile,    \* scrapeAgenda: the transcript file of the meeting
  scrapingResult, \* scrapeAgenda: the ScrapingResult it returned
  literal,       \* the time literal handed to a parser
  parsed,        \* what the parser returned, or that it threw
  payload,       \* parseVTT: vttContent
  lines,         \* parseVTT: the trimmed lines of the payload
  lineIdx,       \* parseVTT: i (0-based)
  vttCues,       \* parseVTT: cues
  maxRetries,    \* withRetry: maxRetries
  baseDelay,     \* withRetry: baseDelay, in ms
  attempt,       \* withRetry: attempt
  lastError,     \* withRetry: lastError
  calls,         \* withRetry: how each invocation of the operation ended
  waits,         \* withRetry: the delays it waited, in ms
  retried,       \* withRetry: what it returned or threw
  clock,         \* Date.now(), in ms
  rateLimitDelay, \* HttpClient: rateLimitDelay, in ms
  lastRequestTime, \* HttpClient: lastRequestTime
  wakeAt,        \* enforceRateLimit: when its timer is due
  releases,      \* lastRequestTime of each request so far
  agendaUrls,    \* scrapeMultiple: agendaUrls
  options,       \* scrapeMultiple: options
  files,         \* the output directory: file name -> content
  urlIdx,        \* scrapeMultiple: i (0-based)
  results,       \* scrapeMultiple: results
  callLog        \* per scrapeAgenda call: what it met and what it did

vars == <<pc, graceWindow, agendaItems, cues, allSpeakers, cueIdx, segments,
          alignLog, preFill, fillIdx, fillPass, mergeIn, current, mergeIdx,
          result, mergeLog, pass, firstResult, validation, outputFile, scrapingResult,
          literal, parsed, payload, lines, lineIdx, vttCues, maxRetries,
          baseDelay, attempt, lastError, calls, waits, retried, clock,
          rateLimitDelay, lastRequestTime, wakeAt, releases, agendaUrls,
          options, files, urlIdx, results, callLog>>

scrapeVars == <<validation, outputFile, scrapingResult>>
timeVars == <<literal, parsed>>
vttVars == <<payload, lines, lineIdx, vttCues>>
retryVars == <<maxRetries, baseDelay, attempt, lastError, calls, waits, retried>>
rateVars == <<clock, rateLimitDelay, lastRequestTime, wakeAt, releases>>
batchVars == <<agendaUrls, options, files, urlIdx, results, callLog>>
clientVars == <<retryVars, rateVars, batchVars>>
laterVars == <<scrapeVars, timeVars, vttVars, clientVars>>

\* ---------------------------------------------------------------- bounds

MaxCues == 2
MaxSegs == 4
MaxParts == 3
MaxLines == 4
MaxRetries == 3
MaxClock == 12
MaxRequests == 3
MaxUrls == 3

\* ------------------------------------------------------------- constants

MsPerSecond == 1000
DefaultGrace == 350
MinDurationSeconds == 2
MaxGapSeconds == 5

\* JavaScript null (speaker_name, agenda_item).
Null == "<null>"

\* ------------------------------------------------------ number helpers

\* Mutant: the nearest second instead of the second begun.
FloorAsRound(ms) == (ms + 500) \div 1000

\* Math.floor(x) of a time x held in ms, in whole seconds.
Floor(ms) == ms \div MsPerSecond

\* Mutant: the fraction is cut off.
RoundDown(ms) == ms \div 1000

\* Mutant: every begun second counts.
RoundUp(ms) == (ms + 999) \div 1000

\* Math.round(x): the nearest integer, halves towards +Infinity.
Round(ms) == (ms + (MsPerSecond \div 2)) \div MsPerSecond

\* Math.abs
Abs(x) == IF x < 0 THEN 0 - x ELSE x

Digit(d) ==
  CASE d = 0 -> "0" [] d = 1 -> "1" [] d = 2 -> "2" [] d = 3 -> "3"
    [] d = 4 -> "4" [] d = 5 -> "5" [] d = 6 -> "6" [] d = 7 -> "7"
    [] d = 8 -> "8" [] OTHER -> "9"

\* Number.prototype.toString() of a non-negative integer.
RECURSIVE NumberToString(_)
NumberToString(n) ==
  IF n < 10 THEN Digit(n) ELSE NumberToString(n \div 10) \o Digit(n % 10)

\* String.prototype.padStart(width, '0')
RECURSIVE PadStart(_, _)
PadStart(s, width) == IF Len(s) >= width THEN s ELSE PadStart("0" \o s, width)

\* ------------------------------------------------------------ utils/time

\* Mutant: the upper bound is inclusive.
IsTimeInWindowClosed(time, start, end, grace) ==
  time >= (start - grace) /\ time <= (end + grace)

\* Mutant: the grace is taken off the window at its start.
IsTimeInWindowGraceInward(time, start, end, grace) ==
  time >= (start + grace) /\ time < (end + grace)

\* isTimeInWindow(time, start, end, graceWindow)
IsTimeInWindow(time, start, end, grace) ==
  time >= (start - grace) /\ time < (end + grace)

\* windows.filter(w => isTimeInWindow(...)): the indices kept, in order.
Matching(time, windows, grace) ==
  SelectSeq([i \in 1..Len(windows) |-> i],
            LAMBDA i : IsTimeInWindow(time, windows[i].startSec,
                                      windows[i].endSec, grace))

\* Mutant: on equal distance the later window replaces the earlier one.
ReduceStepLastWins(time, windows, best, cur) ==
  IF Abs(time - windows[cur].startSec) <= Abs(time - windows[best].startSec)
  THEN cur ELSE best

\* The callback of matching.reduce: keeps best unless current is strictly closer.
ReduceStep(time, windows, best, cur) ==
  LET bestDistance == Abs(time - windows[best].startSec)
      currentDistance == Abs(time - windows[cur].startSec)
  IN  IF currentDistance < bestDistance THEN cur ELSE best

\* Array.prototype.reduce without an initial value, over a non-empty array.
RECURSIVE Reduce(_, _, _, _)
Reduce(time, windows, best, rest) ==
  IF rest = <<>> THEN best
  ELSE Reduce(time, windows, ReduceStep(time, windows, best, Head(rest)), Tail(rest))

\* findBestSpeakerWindow: the index in windows of the window returned, 0 for null.
FindBestSpeakerWindow(time, windows, grace) ==
  LET matching == Matching(time, windows, grace)
  IN  IF Len(matching) = 0 THEN 0
      ELSE IF Len(matching) = 1 THEN matching[1]
      ELSE Reduce(time, windows, Head(matching), Tail(matching))

\* ------------------------------------------------------ TranscriptAligner

\* Array.prototype.sort with (a, b) => a.startSec - b.startSec: a stable sort.
RECURSIVE InsertSorted(_, _)
InsertSorted(w, sorted) ==
  IF sorted = <<>> THEN <<w>>
  ELSE IF w.startSec < Head(sorted).startSec THEN <<w>> \o sorted
  ELSE <<Head(sorted)>> \o InsertSorted(w, Tail(sorted))

RECURSIVE SortByStart(_)
SortByStart(ws) ==
  IF ws = <<>> THEN <<>>
  ELSE InsertSorted(ws[Len(ws)], SortByStart(SubSeq(ws, 1, Len(ws) - 1)))

\* The two nested loops of collectAllSpeakers: every window with its owner's id.
RECURSIVE Flatten(_)
Flatten(items) ==
  IF items = <<>> THEN <<>>
  ELSE [k \in 1..Len(Head(items).speakers) |->
          [startSec |-> Head(items).speakers[k].startSec,
           endSec |-> Head(items).speakers[k].endSec,
           speakerName |-> Head(items).speakers[k].speakerName,
           agendaItemId |-> Head(items).id]]
       \o Flatten(Tail(items))

CollectAllSpeakers(items) == SortByStart(Flatten(items))

\* Mutant: the end of a window, grace included, still belongs to it.
IsCueInAgendaItemTimeRangeClosed(cue, item, grace) ==
  IF Len(item.speakers) = 0 THEN FALSE
  ELSE \E k \in 1..Len(item.speakers) :
         /\ cue.start >= item.speakers[k].startSec - grace
         /\ cue.start <= item.speakers[k].endSec + grace

\* isCueInAgendaItemTimeRange
IsCueInAgendaItemTimeRange(cue, item, grace) ==
  IF Len(item.speakers) = 0 THEN FALSE
  ELSE \E k \in 1..Len(item.speakers) :
         /\ cue.start >= item.speakers[k].startSec - grace
         /\ cue.start < item.speakers[k].endSec + grace

\* The smallest member of a set of indices (where a find or a for loop with an
\* early return stops); 0 when the set is empty.
FirstIndex(S) == IF S = {} THEN 0 ELSE CHOOSE i \in S : \A j \in S : i <= j

\* findAgendaItemForCue without its first branch: the scan by time range, then
\* the fallback to the first item.
FindAgendaItemByTime(cue, items, grace) ==
  LET byTime == FirstIndex({i \in 1..Len(items) :
                              IsCueInAgendaItemTimeRange(cue, items[i], grace)})
  IN  IF byTime # 0 THEN byTime
      ELSE IF Len(items) > 0 THEN 1 ELSE 0

\* Mutant: the matched speaker's agenda item id is never looked up.
FindAgendaItemIgnoringSpeaker(cue, items, windows, matched, grace) ==
  FindAgendaItemByTime(cue, items, grace)

\* findAgendaItemForCue: the index in items of the item returned, 0 for null.
\* matched is the index in windows of the matched speaker, 0 for undefined.
FindAgendaItemForCue(cue, items, windows, matched, grace) ==
  LET byId == IF matched # 0 /\ windows[matched].agendaItemId # ""
              THEN FirstIndex({i \in 1..Len(items) :
                                 items[i].id = windows[matched].agendaItemId})
              ELSE 0
  IN  IF byId # 0 THEN byId ELSE FindAgendaItemByTime(cue, items, grace)

\* secondsToHHMMSS
SecondsToHHMMSS(ms) ==
  LET hours == ms \div (3600 * MsPerSecond)
      minutes == (ms % (3600 * MsPerSecond)) \div (60 * MsPerSecond)
      secs == (ms % (60 * MsPerSecond)) \div MsPerSecond
  IN  PadStart(NumberToString(hours), 2) \o ":" \o PadStart(NumberToString(minutes), 2)
        \o ":" \o PadStart(NumberToString(secs), 2)

IsSpace(c) == c = " "

\* countWords: text.trim().split(/\s+/).filter(w => w.length > 0).length
CountWords(text) ==
  Cardinality({i \in 1..Len(text) :
                 ~IsSpace(text[i]) /\ (i = 1 \/ IsSpace(text[i - 1]))})

\* x || null for a string x
OrNull(s) == IF s = "" THEN Null ELSE s

\* The segment literal of alignTranscript's loop body.
MakeSegment(segmentId, cue, speakerName, title) ==
  [segment_id |-> PadStart(NumberToString(segmentId), 3),
   speaker_name |-> speakerName,
   transcript_text |-> cue.text,
   video_seconds |-> Floor(cue.start),
   timestamp_start |-> SecondsToHHMMSS(cue.start),
   timestamp_end |-> SecondsToHHMMSS(cue.end),
   duration_seconds |-> Round(cue.end - cue.start),
   word_count |-> CountWords(cue.text),
   char_count |-> Len(cue.text),
   segment_type |-> "spoken",
   agenda_item |-> title]

\* Mutant: ?? in place of ||, an empty name is kept.
SpeakerNameNullish(windows, matched) ==
  IF matched = 0 THEN Null ELSE windows[matched].speakerName

\* matchedSpeaker?.speakerName || null
SpeakerNameOf(windows, matched) ==
  IF matched = 0 THEN Null ELSE OrNull(windows[matched].speakerName)

\* agendaItem?.title || null
TitleOf(items, item) ==
  IF item = 0 THEN Null ELSE OrNull(items[item].title)

\* ------------------------------------------------------------- the inputs

\* Speaker windows as parseSpeakerLine yields them (speakerName may be empty:
\* its name group matches a single trailing blank, which trim() removes).
WindowChoices ==
  { [startSec |-> 76000, endSec |-> 454000, speakerName |-> "Jules Bijl"],
    [startSec |-> 76400, endSec |-> 100000, speakerName |-> "B"],
    [startSec |-> 76000, endSec |-> 90000, speakerName |-> ""] }

\* At most two windows per agenda item.
SpeakerLists ==
  {<<>>} \cup {<<w>> : w \in WindowChoices}
         \cup {<<w1, w2>> : w1 \in WindowChoices, w2 \in WindowChoices}

\* extractAgendaItems: ids are item_<index + 1>; cleanAgendaTitle may leave "".
AgendaChoices ==
  {<<>>}
  \cup {<<[id |-> "item_1", title |-> t, order |-> 1, speakers |-> s1]>> :
          t \in {"X", ""}, s1 \in SpeakerLists}
  \cup {<<[id |-> "item_1", title |-> t, order |-> 1, speakers |-> s1],
          [id |-> "item_2", title |-> "Y", order |-> 2, speakers |-> s2]>> :
          t \in {"X", ""}, s1 \in SpeakerLists, s2 \in SpeakerLists}

GraceChoices == {0, DefaultGrace}

TextA == <<"a">>
TextBC == <<"b", " ", "c">>
TextDames == <<"D", "a", "m", "e", "s", " ", "e", "n", " ",
               "h", "e", "r", "e", "n">>

CueChoices ==
  { [start |-> 75500, end |-> 76000, text |-> TextA],
    [start |-> 75650, end |-> 77000, text |-> TextBC],
    [start |-> 76200, end |-> 76900, text |-> TextA],
    [start |-> 83200, end |-> 85000, text |-> TextDames],
    [start |-> 90000, end |-> 90400, text |-> TextA],
    [start |-> 454350, end |-> 455000, text |-> TextBC] }

SeqsUpTo(S, n) == UNION {[1..k -> S] : k \in 0..n}

\* ------------------------------------------------------------------ Init

NoSegment == [segment_id |-> "", speaker_name |-> Null, transcript_text |-> <<>>,
              video_seconds |-> 0, timestamp_start |-> "", timestamp_end |-> "",
              duration_seconds |-> 0, word_count |-> 0, char_count |-> 0,
              segment_type |-> "", agenda_item |-> Null]

\* ------------------------------------------- strings read by character

IsDigit(c) == c \in {"0", "1", "2", "3", "4", "5", "6", "7", "8", "9"}

DigitValue(c) ==
  CASE c = "0" -> 0 [] c = "1" -> 1 [] c = "2" -> 2 [] c = "3" -> 3
    [] c = "4" -> 4 [] c = "5" -> 5 [] c = "6" -> 6 [] c = "7" -> 7
    [] c = "8" -> 8 [] OTHER -> 9

\* \s
IsWhite(c) == c \in {" ", "\t", "\r"}

\* String.prototype.split(sep) for a one-character sep: the pieces, in order.
RECURSIVE Split(_, _)
Split(chars, sep) ==
  LET at == FirstIndex({i \in 1..Len(chars) : chars[i] = sep})
  IN  IF at = 0 THEN <<chars>>
      ELSE <<SubSeq(chars, 1, at - 1)>> \o Split(SubSeq(chars, at + 1, Len(chars)), sep)

\* Array.prototype.join for strings held as character sequences.
RECURSIVE JoinChars(_, _)
JoinChars(pieces, sep) ==
  IF Len(pieces) = 0 THEN <<>>
  ELSE IF Len(pieces) = 1 THEN pieces[1]
  ELSE pieces[1] \o sep \o JoinChars(Tail(pieces), sep)

\* String.prototype.replace(from, to) for one-character strings: the first
\* occurrence only.
ReplaceFirst(chars, from, to) ==
  LET at == FirstIndex({i \in 1..Len(chars) : chars[i] = from})
  IN  IF at = 0 THEN chars ELSE [chars EXCEPT ![at] = to]

\* Mutant: the fragment is taken as it is written.
PadEndNone(chars, n, c) == chars

\* String.prototype.padEnd(n, c)
RECURSIVE PadEnd(_, _, _)
PadEnd(chars, n, c) == IF Len(chars) >= n THEN chars ELSE PadEnd(Append(chars, c), n, c)

\* String.prototype.trim
RECURSIVE Trim(_)
Trim(chars) ==
  IF Len(chars) = 0 THEN chars
  ELSE IF IsWhite(chars[1]) THEN Trim(Tail(chars))
  ELSE IF IsWhite(chars[Len(chars)]) THEN Trim(SubSeq(chars, 1, Len(chars) - 1))
  ELSE chars

\* \d{lo,hi} over the whole of chars
Digits(chars, lo, hi) ==
  /\ Len(chars) >= lo
  /\ Len(chars) <= hi
  /\ \A i \in 1..Len(chars) : IsDigit(chars[i])

\* ------------------------------------------------------- time literals

\* What a parser hands back: a number, NaN, or nothing because it threw.  A
\* number of parseInt is held in n as it is, a time in seconds as ms.
NaN == [kind |-> "NaN", n |-> 0]
Thrown == [kind |-> "error", n |-> 0]
Number(n) == [kind |-> "number", n |-> n]

RECURSIVE Decimal(_)
Decimal(digits) ==
  IF Len(digits) = 0 THEN 0
  ELSE 10 * Decimal(SubSeq(digits, 1, Len(digits) - 1)) + DigitValue(digits[Len(digits)])

\* parseInt(s, 10) of a string without blanks and signs: the digits it begins
\* with, NaN when it begins with none.
ParseInt(chars) ==
  LET stop == FirstIndex({i \in 1..Len(chars) : ~IsDigit(chars[i])})
      digits == IF stop = 0 THEN chars ELSE SubSeq(chars, 1, stop - 1)
  IN  IF Len(digits) = 0 THEN NaN ELSE Number(Decimal(digits))

\* hours * 3600 + minutes * 60 + seconds + ms / 1000: NaN as soon as one of
\* them is.
TimeValue(hours, minutes, seconds, ms) ==
  IF \E x \in {hours, minutes, seconds, ms} : x.kind = "NaN" THEN NaN
  ELSE Number(hours.n * 3600 * MsPerSecond + minutes.n * 60 * MsPerSecond
              + seconds.n * MsPerSecond + ms.n)

\* timeToSeconds
TimeToSeconds(timeStr) ==
  LET parts == Split(timeStr, ":")
  IN  IF Len(parts) = 2
      THEN TimeValue(Number(0), ParseInt(parts[1]), ParseInt(parts[2]), Number(0))
      ELSE IF Len(parts) = 3
      THEN TimeValue(ParseInt(parts[1]), ParseInt(parts[2]), ParseInt(parts[3]),
                     Number(0))
      ELSE Thrown

\* vttTimestampToSeconds (its replace puts back what it matched)
VttTimestampToSeconds(timestamp) ==
  LET parts == Split(timestamp, ":")
  IN  IF Len(parts) = 3
      THEN LET pieces == Split(parts[3], ".")
               secondsPart == pieces[1]
               milliseconds == IF Len(pieces) > 1 THEN pieces[2] ELSE <<>>
               ms == IF Len(milliseconds) > 0
                     THEN ParseInt(PadEnd(milliseconds, 3, "0"))
                     ELSE Number(0)
           IN  TimeValue(ParseInt(parts[1]), ParseInt(parts[2]),
                         ParseInt(secondsPart), ms)
      ELSE Thrown

\* VTTProcessor.parseVTTTimestamp
ParseVTTTimestamp(timestamp) ==
  LET normalized == ReplaceFirst(timestamp, ",", ".")
      parts == Split(normalized, ":")
      last == Split(parts[Len(parts)], ".")
      \* /^\d:\d{2}:\d{2}\.\d+$/
      oneDigitHour ==
        /\ Len(parts) = 3
        /\ Digits(parts[1], 1, 1)
        /\ Digits(parts[2], 2, 2)
        /\ Len(last) = 2
        /\ Digits(last[1], 2, 2)
        /\ Digits(last[2], 1, Len(last[2]))
      \* /^(\d{1,2}):(\d{2})\.(\d{1,3})$/
      shortMatch ==
        /\ Len(parts) = 2
        /\ Digits(parts[1], 1, 2)
        /\ Len(last) = 2
        /\ Digits(last[1], 2, 2)
        /\ Digits(last[2], 1, 3)
      \* /^(\d{1,2}):(\d{2}):(\d{2})\.(\d{1,3})$/
      longMatch ==
        /\ Len(parts) = 3
        /\ Digits(parts[1], 1, 2)
        /\ Digits(parts[2], 2, 2)
        /\ Len(last) = 2
        /\ Digits(last[1], 2, 2)
        /\ Digits(last[2], 1, 3)
  IN  IF oneDigitHour THEN VttTimestampToSeconds(normalized)
      ELSE IF shortMatch
      THEN TimeValue(Number(0), ParseInt(parts[1]), ParseInt(last[1]),
                     ParseInt(PadEnd(last[2], 3, "0")))
      ELSE IF longMatch
      THEN TimeValue(ParseInt(parts[1]), ParseInt(parts[2]), ParseInt(last[1]),
                     ParseInt(PadEnd(last[2], 3, "0")))
      ELSE VttTimestampToSeconds(normalized)

\* ---------------------------------------------------------------- parseVTT

Signature == <<"W", "E", "B", "V", "T", "T">>
Note == <<"N", "O", "T", "E">>
Arrow == <<"-", "-", ">">>

\* String.prototype.startsWith
StartsWith(chars, prefix) ==
  /\ Len(chars) >= Len(prefix)
  /\ SubSeq(chars, 1, Len(prefix)) = prefix

\* String.prototype.includes
Includes(chars, sub) ==
  \E k \in 1..(Len(chars) - Len(sub) + 1) : SubSeq(chars, k, k + Len(sub) - 1) = sub

\* [\d:.,]
IsStampChar(c) == IsDigit(c) \/ c \in {":", ".", ","}

\* Where a run of [\d:.,] that starts at from ends: from - 1 when chars[from]
\* is no such character.
StampEnd(chars, from) ==
  LET stop == FirstIndex({k \in from..Len(chars) : ~IsStampChar(chars[k])})
  IN  IF stop = 0 THEN Len(chars) ELSE stop - 1

\* \s* from from on: the index of the first character behind it.
SkipWhite(chars, from) ==
  LET stop == FirstIndex({k \in from..Len(chars) : ~IsWhite(chars[k])})
  IN  IF stop = 0 THEN Len(chars) + 1 ELSE stop

\* timingLine.match(/^([\d:.,]+)\s*-->\s*([\d:.,]+)(?:\s+(.*))?$/): whether it
\* matches, and its first two groups.
TimingMatch(line) ==
  LET startEnd == StampEnd(line, 1)
      arrowAt == SkipWhite(line, startEnd + 1)
      endFrom == SkipWhite(line, arrowAt + Len(Arrow))
      endEnd == StampEnd(line, endFrom)
      matched ==
        /\ startEnd >= 1
        /\ arrowAt + Len(Arrow) - 1 <= Len(line)
        /\ SubSeq(line, arrowAt, arrowAt + Len(Arrow) - 1) = Arrow
        /\ endEnd >= endFrom
        /\ (endEnd = Len(line) \/ IsWhite(line[endEnd + 1]))
  IN  IF matched
      THEN [matched |-> TRUE, startTime |-> SubSeq(line, 1, startEnd),
            endTime |-> SubSeq(line, endFrom, endEnd)]
      ELSE [matched |-> FALSE, startTime |-> <<>>, endTime |-> <<>>]

\* replace(/<\/?[^>]+>/g, ''): a "<", at least one character that is no ">",
\* and the next ">".  (The replacements of the c, v, b, i and u tags that
\* follow find nothing left to remove.)
RECURSIVE RemoveTags(_)
RemoveTags(chars) ==
  IF Len(chars) = 0 THEN chars
  ELSE LET close == FirstIndex({k \in 2..Len(chars) : chars[k] = ">"})
       IN  IF chars[1] = "<" /\ close > 2
           THEN RemoveTags(SubSeq(chars, close + 1, Len(chars)))
           ELSE <<chars[1]>> \o RemoveTags(Tail(chars))

\* replace(/\s+/g, ' ')
RECURSIVE CollapseWhite(_)
CollapseWhite(chars) ==
  IF Len(chars) = 0 THEN chars
  ELSE IF IsWhite(chars[1])
  THEN (IF Len(chars) > 1 /\ IsWhite(chars[2])
        THEN CollapseWhite(Tail(chars))
        ELSE <<" ">> \o CollapseWhite(Tail(chars)))
  ELSE <<chars[1]>> \o CollapseWhite(Tail(chars))

\* cleanCueText
CleanCueText(text) == Trim(CollapseWhite(RemoveTags(text)))

\* vttContent.split('\n').map(line => line.trim())
TrimmedLines(content) ==
  LET raw == Split(content, "\n") IN [k \in 1..Len(raw) |-> Trim(raw[k])]

\* The header loop and the i++ behind it: i (0-based) when the cue loop starts.
SkipHeader(ls) ==
  LET at == FirstIndex({k \in 1..Len(ls) : StartsWith(ls[k], Signature)})
  IN  (IF at = 0 THEN Len(ls) ELSE at - 1) + 1

\* The loop over empty lines and comments, from i (0-based) on: i behind it.
SkipEmpty(ls, i) ==
  LET at == FirstIndex({k \in (i + 1)..Len(ls) :
                          ~(ls[k] = <<>> \/ StartsWith(ls[k], Note))})
  IN  IF at = 0 THEN Len(ls) ELSE at - 1

\* Mutant: the index stays on the timing line.
TextEndAtTiming(ls, i) == i - 1

\* The loop collecting text lines, from i (0-based) on: i behind it.
TextEnd(ls, i) ==
  LET at == FirstIndex({k \in (i + 1)..Len(ls) :
                          ls[k] = <<>> \/ Includes(ls[k], Arrow)})
  IN  IF at = 0 THEN Len(ls) ELSE at - 1

\* One iteration of the cue loop, entered with i (0-based) and cues cs: i and
\* the cues behind it, and whether it left the loop with break.
ParseBlock(ls, i, cs) ==
  LET atCue == SkipEmpty(ls, i)
      atTiming == IF atCue < Len(ls) /\ ~Includes(ls[atCue + 1], Arrow)
                  THEN atCue + 1
                  ELSE atCue
  IN  IF atCue >= Len(ls) THEN [i |-> atCue, cues |-> cs, break |-> TRUE]
      ELSE IF atTiming >= Len(ls) THEN [i |-> atTiming, cues |-> cs, break |-> TRUE]
      ELSE
        LET timingMatch == TimingMatch(ls[atTiming + 1])
            atEnd == TextEnd(ls, atTiming + 1)
            textLines == SubSeq(ls, atTiming + 2, atEnd)
            start == ParseVTTTimestamp(timingMatch.startTime)
            end == ParseVTTTimestamp(timingMatch.endTime)
            text == CleanCueText(JoinChars(textLines, <<" ">>))
        IN  IF ~timingMatch.matched
            THEN [i |-> atTiming + 1, cues |-> cs, break |-> FALSE]
            ELSE IF Len(textLines) = 0
            THEN [i |-> atEnd, cues |-> cs, break |-> FALSE]
            ELSE IF start.kind = "error" \/ end.kind = "error"
            THEN [i |-> atEnd, cues |-> cs, break |-> FALSE]
            ELSE IF Len(Trim(text)) > 0
            THEN [i |-> atEnd,
                  cues |-> Append(cs, [start |-> start, end |-> end, text |-> text]),
                  break |-> FALSE]
            ELSE [i |-> atEnd, cues |-> cs, break |-> FALSE]

\* Nothing validated, written or returned yet.
NoValidation == [valid |-> FALSE, warnings |-> <<>>, errors |-> <<>>]
NoFile == [written |-> FALSE, segments |-> <<>>]
NoResult == [success |-> FALSE, error |-> Null, videoAvailable |-> FALSE,
             transcriptSegments |-> 0]

ScrapeIdle ==
  /\ validation = NoValidation
  /\ outputFile = NoFile
  /\ scrapingResult = NoResult

\* No parser called yet.
NotParsed == [kind |-> "none", n |-> 0]

TimeIdle ==
  /\ literal = <<>>
  /\ parsed = NotParsed

VttIdle ==
  /\ payload = <<>>
  /\ lines = <<>>
  /\ lineIdx = 0
  /\ vttCues = <<>>

\* withRetry not called.
NotRetried == [kind |-> "none", value |-> Null]

RetryIdle ==
  /\ maxRetries = 0
  /\ baseDelay = 0
  /\ attempt = 0
  /\ lastError = Null
  /\ calls = <<>>
  /\ waits = <<>>
  /\ retried = NotRetried

\* No HttpClient constructed.
RateIdle ==
  /\ clock = 0
  /\ rateLimitDelay = 0
  /\ lastRequestTime = 0
  /\ wakeAt = 0
  /\ releases = <<>>

\* scrapeMultiple not called.
BatchIdle ==
  /\ agendaUrls = <<>>
  /\ options = [skipExisting |-> FALSE, continueOnError |-> FALSE]
  /\ files = <<>>
  /\ urlIdx = 0
  /\ results = <<>>
  /\ callLog = <<>>

ClientIdle ==
  /\ RetryIdle
  /\ RateIdle
  /\ BatchIdle

LaterIdle ==
  /\ ScrapeIdle
  /\ TimeIdle
  /\ VttIdle
  /\ ClientIdle

PostIdle ==
  /\ preFill = <<>>
  /\ fillIdx = 0
  /\ fillPass = 0
  /\ mergeIn = <<>>
  /\ current = NoSegment
  /\ mergeIdx = 0
  /\ result = <<>>
  /\ mergeLog = <<>>
  /\ pass = 0
  /\ firstResult = <<>>

\* A TranscriptAligner constructed with some grace window, about to align
\* some cues against some agenda.
Init ==
  /\ pc = "alignTranscript"
  /\ graceWindow \in GraceChoices
  /\ agendaItems \in AgendaChoices
  /\ cues \in SeqsUpTo(CueChoices, MaxCues)
  /\ allSpeakers = <<>>
  /\ cueIdx = 0
  /\ segments = <<>>
  /\ alignLog = <<>>
  /\ PostIdle
  /\ LaterIdle

postVars == <<preFill, fillIdx, fillPass, mergeIn, current, mergeIdx, result, mergeLog,
              pass, firstResult>>

\* --------------------------------------------------------- alignTranscript

\* alignTranscript up to its loop: collectAllSpeakers.
AlignBegin ==
  /\ pc = "alignTranscript"
  /\ allSpeakers' = CollectAllSpeakers(agendaItems)
  /\ pc' = "alignLoop"
  /\ UNCHANGED <<graceWindow, agendaItems, cues, cueIdx, segments, alignLog>>
  /\ UNCHANGED postVars
  /\ UNCHANGED laterVars

\* One iteration of for (const cue of cues).
AlignCue ==
  /\ pc = "alignLoop"
  /\ cueIdx < Len(cues)
  /\ LET cue == cues[cueIdx + 1]
         segmentId == cueIdx + 1
         matchedSpeaker == FindBestSpeakerWindow(cue.start, allSpeakers, graceWindow)
         agendaItem == FindAgendaItemForCue(cue, agendaItems, allSpeakers,
                                            matchedSpeaker, graceWindow)
     IN  /\ segments' = Append(segments,
                          MakeSegment(segmentId, cue,
                                      SpeakerNameOf(allSpeakers, matchedSpeaker),
                                      TitleOf(agendaItems, agendaItem)))
         /\ alignLog' = Append(alignLog,
                          [matching |-> Matching(cue.start, allSpeakers, graceWindow),
                           matchedSpeaker |-> matchedSpeaker,
                           agendaItem |-> agendaItem])
  /\ cueIdx' = cueIdx + 1
  /\ UNCHANGED <<pc, graceWindow, agendaItems, cues, allSpeakers>>
  /\ UNCHANGED postVars
  /\ UNCHANGED laterVars

\* The loop is over: alignTranscript returns segments.
AlignReturn ==
  /\ pc = "alignLoop"
  /\ cueIdx = Len(cues)
  /\ pc' = "aligned"
  /\ UNCHANGED <<graceWindow, agendaItems, cues, allSpeakers, cueIdx, segments,
                 alignLog>>
  /\ UNCHANGED postVars
  /\ UNCHANGED laterVars

Next == AlignBegin \/ AlignCue \/ AlignReturn

Spec == Init /\ [][Next]_vars

\* ----------------------------------------------------- postProcessSegments

\* !x for a string-or-null x
Falsy(s) == s = Null \/ s = ""

\* Mutant: the previous speaker alone decides.
FillSpeakerFromPrevious(own, prevSpeaker, nextSpeaker) ==
  IF Falsy(own) /\ ~Falsy(prevSpeaker) THEN prevSpeaker ELSE own

\* Mutant: one known neighbour is enough.
FillSpeakerFromEitherSide(own, prevSpeaker, nextSpeaker) ==
  IF Falsy(own) /\ ~Falsy(prevSpeaker) /\ (prevSpeaker = nextSpeaker \/ Falsy(nextSpeaker))
  THEN prevSpeaker
  ELSE IF Falsy(own) /\ Falsy(prevSpeaker) /\ ~Falsy(nextSpeaker) THEN nextSpeaker
  ELSE own

\* Mutant: the next speaker alone decides.
FillSpeakerFromNext(own, prevSpeaker, nextSpeaker) ==
  IF Falsy(own) /\ ~Falsy(nextSpeaker) THEN nextSpeaker ELSE own

\* The body of fillSpeakerGaps' loop: the speaker_name of result[i] after it.
FillSpeaker(own, prevSpeaker, nextSpeaker) ==
  IF Falsy(own) /\ ~Falsy(prevSpeaker) /\ prevSpeaker = nextSpeaker
  THEN prevSpeaker
  ELSE own

\* Mutant: the agenda item is not compared.
ShouldMergeAnyAgenda(cur, next) ==
  /\ cur.speaker_name = next.speaker_name
  /\ cur.duration_seconds < MinDurationSeconds
  /\ (next.video_seconds - (cur.video_seconds + cur.duration_seconds)) < MaxGapSeconds

\* Mutant: the duration tested is that of the next segment.
ShouldMergeNextShort(cur, next) ==
  /\ cur.speaker_name = next.speaker_name
  /\ cur.agenda_item = next.agenda_item
  /\ next.duration_seconds < MinDurationSeconds
  /\ (next.video_seconds - (cur.video_seconds + cur.duration_seconds)) < MaxGapSeconds

\* shouldMerge of mergeShortSegments
ShouldMerge(cur, next) ==
  /\ cur.speaker_name = next.speaker_name
  /\ cur.agenda_item = next.agenda_item
  /\ cur.duration_seconds < MinDurationSeconds
  /\ (next.video_seconds - (cur.video_seconds + cur.duration_seconds)) < MaxGapSeconds

\* Mutant: the durations are added up, the gap between the two is lost.
MergeIntoAddingDurations(cur, next) ==
  [cur EXCEPT
     !.transcript_text = cur.transcript_text \o <<" ">> \o next.transcript_text,
     !.timestamp_end = next.timestamp_end,
     !.duration_seconds = cur.duration_seconds + next.duration_seconds,
     !.word_count = cur.word_count + next.word_count,
     !.char_count = cur.char_count + next.char_count]

\* Mutant: the words of the absorbed segment are not counted.
MergeIntoDroppingWords(cur, next) ==
  [cur EXCEPT
     !.transcript_text = cur.transcript_text \o <<" ">> \o next.transcript_text,
     !.timestamp_end = next.timestamp_end,
     !.duration_seconds = next.video_seconds + next.duration_seconds - cur.video_seconds,
     !.char_count = cur.char_count + next.char_count]

\* The merge branch of mergeShortSegments: current after it.
MergeInto(cur, next) ==
  [cur EXCEPT
     !.transcript_text = cur.transcript_text \o <<" ">> \o next.transcript_text,
     !.timestamp_end = next.timestamp_end,
     !.duration_seconds = next.video_seconds + next.duration_seconds - cur.video_seconds,
     !.word_count = cur.word_count + next.word_count,
     !.char_count = cur.char_count + next.char_count]

alignVars == <<graceWindow, agendaItems, cues, allSpeakers, cueIdx, alignLog>>
mergeVars == <<mergeIn, current, mergeIdx, result, mergeLog, pass, firstResult>>

\* postProcessSegments calls fillSpeakerGaps: result = [...segments], a new
\* array of the same segment objects.
FillBegin ==
  /\ pc = "aligned"
  /\ preFill' = segments
  /\ fillIdx' = 0
  /\ fillPass' = 1
  /\ pc' = "fillLoop"
  /\ UNCHANGED <<segments>>
  /\ UNCHANGED alignVars
  /\ UNCHANGED laterVars
  /\ UNCHANGED mergeVars

\* One iteration of fillSpeakerGaps' loop; it writes into the segment object,
\* which the caller's array holds too.
FillGapStep ==
  /\ pc = "fillLoop"
  /\ fillIdx < Len(segments)
  /\ LET i == fillIdx + 1
         prevSpeaker == IF i > 1 THEN segments[i - 1].speaker_name ELSE Null
         nextSpeaker == IF i < Len(segments) THEN segments[i + 1].speaker_name ELSE Null
     IN  segments' = [segments EXCEPT ![i].speaker_name =
                        FillSpeaker(segments[i].speaker_name, prevSpeaker, nextSpeaker)]
  /\ fillIdx' = fillIdx + 1
  /\ UNCHANGED <<pc, preFill, fillPass>>
  /\ UNCHANGED alignVars
  /\ UNCHANGED laterVars
  /\ UNCHANGED mergeVars

\* fillSpeakerGaps returns; postProcessSegments passes its result on to
\* mergeShortSegments.
FillReturn ==
  /\ pc = "fillLoop"
  /\ fillIdx = Len(segments)
  /\ fillPass = 1
  /\ mergeIn' = segments
  /\ pc' = "merge"
  /\ UNCHANGED <<segments, preFill, fillIdx, fillPass, current, mergeIdx, result, mergeLog,
                 pass, firstResult>>
  /\ UNCHANGED alignVars
  /\ UNCHANGED laterVars

\* The gap-fill sweep applied once more, to what it returned.
FillAgain ==
  /\ pc = "merge"
  /\ pass = 0
  /\ fillPass = 1
  /\ preFill' = segments
  /\ fillIdx' = 0
  /\ fillPass' = 2
  /\ pc' = "fillLoop"
  /\ UNCHANGED <<segments>>
  /\ UNCHANGED alignVars
  /\ UNCHANGED laterVars
  /\ UNCHANGED mergeVars

\* The second sweep returns.
FillAgainReturn ==
  /\ pc = "fillLoop"
  /\ fillIdx = Len(segments)
  /\ fillPass = 2
  /\ pc' = "filledAgain"
  /\ UNCHANGED <<segments, preFill, fillIdx, fillPass>>
  /\ UNCHANGED alignVars
  /\ UNCHANGED laterVars
  /\ UNCHANGED mergeVars

\* mergeShortSegments up to its loop: the early return for an empty array, else
\* current = { ...segments[0] }.
MergeBegin ==
  /\ pc = "merge"
  /\ pass' = pass + 1
  /\ mergeLog' = <<>>
  /\ IF Len(mergeIn) = 0
     THEN /\ result' = mergeIn
          /\ firstResult' = IF pass = 0 THEN mergeIn ELSE firstResult
          /\ pc' = "merged"
          /\ UNCHANGED <<current, mergeIdx>>
     ELSE /\ result' = <<>>
          /\ current' = mergeIn[1]
          /\ mergeIdx' = 1
          /\ pc' = "mergeLoop"
          /\ UNCHANGED firstResult
  /\ UNCHANGED <<segments, preFill, fillIdx, fillPass, mergeIn>>
  /\ UNCHANGED alignVars
  /\ UNCHANGED laterVars

\* One iteration of mergeShortSegments' loop.
MergeStep ==
  /\ pc = "mergeLoop"
  /\ mergeIdx < Len(mergeIn)
  /\ LET next == mergeIn[mergeIdx + 1]
         shouldMerge == ShouldMerge(current, next)
     IN  /\ IF shouldMerge
            THEN /\ current' = MergeInto(current, next)
                 /\ result' = result
            ELSE /\ result' = Append(result, current)
                 /\ current' = next
         /\ mergeLog' = Append(mergeLog,
                          [acc |-> current, next |-> next, shouldMerge |-> shouldMerge,
                           after |-> current', before |-> result, out |-> result'])
  /\ mergeIdx' = mergeIdx + 1
  /\ UNCHANGED <<pc, segments, preFill, fillIdx, fillPass, mergeIn, pass, firstResult>>
  /\ UNCHANGED alignVars
  /\ UNCHANGED laterVars

\* The loop is over: result.push(current); return result.
MergeReturn ==
  /\ pc = "mergeLoop"
  /\ mergeIdx = Len(mergeIn)
  /\ result' = Append(result, current)
  /\ firstResult' = IF pass = 1 THEN result' ELSE firstResult
  /\ pc' = "merged"
  /\ UNCHANGED <<segments, preFill, fillIdx, fillPass, mergeIn, current, mergeIdx, mergeLog, pass>>
  /\ UNCHANGED alignVars
  /\ UNCHANGED laterVars

\* The merge pass applied once more, to what it returned.
MergeAgain ==
  /\ pc = "merged"
  /\ pass = 1
  /\ mergeIn' = result
  /\ pc' = "merge"
  /\ UNCHANGED <<segments, preFill, fillIdx, fillPass, current, mergeIdx, result, mergeLog,
                 pass, firstResult>>
  /\ UNCHANGED alignVars
  /\ UNCHANGED laterVars

\* ------------------------------------------------------- validateAlignment

\* Math.round(rate * 100) of the rate aligned / total.
RoundPercent(aligned, total) == (200 * aligned + total) \div (2 * total)

\* Mutant: a rate of exactly one half is low too.
LowSpeakerRateInclusive(aligned, total) == 2 * aligned <= total

\* speakerAlignmentRate < 0.5
LowSpeakerRate(aligned, total) == 2 * aligned < total

\* agendaAlignmentRate < 0.3
LowAgendaRate(aligned, total) == 10 * aligned < 3 * total

\* Mutant: equal neighbours count as an inconsistency.
OutOfOrderOrEqual(cur, next) == cur.video_seconds >= next.video_seconds

\* The test of the timing loop.
OutOfOrder(cur, next) == cur.video_seconds > next.video_seconds

\* The errors the timing loop pushes from the pair at i (1-based) on.
RECURSIVE TimingErrors(_, _)
TimingErrors(segs, i) ==
  IF i >= Len(segs) THEN <<>>
  ELSE (IF OutOfOrder(segs[i], segs[i + 1])
        THEN <<"Timing inconsistency at segment " \o segs[i].segment_id \o ": "
               \o NumberToString(segs[i].video_seconds) \o " > "
               \o NumberToString(segs[i + 1].video_seconds)>>
        ELSE <<>>)
       \o TimingErrors(segs, i + 1)

ValidateAlignment(segs) ==
  IF Len(segs) = 0
  THEN [valid |-> FALSE, warnings |-> <<>>, errors |-> <<"No segments generated">>]
  ELSE
    LET total == Len(segs)
        unalignedSpeakers ==
          Cardinality({i \in 1..total : segs[i].speaker_name = Null})
        unalignedAgenda ==
          Cardinality({i \in 1..total : segs[i].agenda_item = Null})
        speakerWarnings ==
          IF LowSpeakerRate(total - unalignedSpeakers, total)
          THEN <<"Low speaker alignment rate: "
                 \o NumberToString(RoundPercent(total - unalignedSpeakers, total))
                 \o "%">>
          ELSE <<>>
        agendaWarnings ==
          IF LowAgendaRate(total - unalignedAgenda, total)
          THEN <<"Low agenda item alignment rate: "
                 \o NumberToString(RoundPercent(total - unalignedAgenda, total))
                 \o "%">>
          ELSE <<>>
        errors == TimingErrors(segs, 1)
    IN  [valid |-> Len(errors) = 0,
         warnings |-> speakerWarnings \o agendaWarnings,
         errors |-> errors]

\* ------------------------------------------------------------ scrapeAgenda

\* Array.prototype.join
RECURSIVE Join(_, _)
Join(strings, sep) ==
  IF Len(strings) = 0 THEN ""
  ELSE IF Len(strings) = 1 THEN strings[1]
  ELSE strings[1] \o sep \o Join(Tail(strings), sep)

\* Mutant: it is the warnings that stop the run.
ValidationFailsOnWarnings(v) == Len(v.warnings) > 0

\* if (!validation.valid)
ValidationFails(v) == ~v.valid

\* scrapeAgenda: validation = validateAlignment(processedSegments), where
\* processedSegments is what postProcessSegments returned.
Validate ==
  /\ pc = "merged"
  /\ pass = 1
  /\ validation' = ValidateAlignment(result)
  /\ pc' = "validated"
  /\ UNCHANGED <<outputFile, scrapingResult>>
  /\ UNCHANGED <<segments, preFill, fillIdx, fillPass>>
  /\ UNCHANGED alignVars
  /\ UNCHANGED mergeVars
  /\ UNCHANGED <<timeVars, vttVars, clientVars>>

\* The validation failed: the throw lands in scrapeAgenda's catch block, which
\* returns the failure result.  (meetingId is left out of the result: it is
\* taken from the agenda URL.)
ScrapeThrow ==
  /\ pc = "validated"
  /\ ValidationFails(validation)
  /\ scrapingResult' =
       [success |-> FALSE,
        error |-> "Alignment validation failed: " \o Join(validation.errors, ", "),
        videoAvailable |-> FALSE,
        transcriptSegments |-> 0]
  /\ pc' = "failed"
  /\ UNCHANGED <<validation, outputFile>>
  /\ UNCHANGED <<segments, preFill, fillIdx, fillPass>>
  /\ UNCHANGED alignVars
  /\ UNCHANGED mergeVars
  /\ UNCHANGED <<timeVars, vttVars, clientVars>>

\* The validation passed: the JSON built from processedSegments is written and
\* the success result returned.
ScrapeWrite ==
  /\ pc = "validated"
  /\ ~ValidationFails(validation)
  /\ outputFile' = [written |-> TRUE, segments |-> result]
  /\ scrapingResult' =
       [success |-> TRUE, error |-> Null, videoAvailable |-> TRUE,
        transcriptSegments |-> Len(result)]
  /\ pc' = "written"
  /\ UNCHANGED <<validation>>
  /\ UNCHANGED <<segments, preFill, fillIdx, fillPass>>
  /\ UNCHANGED alignVars
  /\ UNCHANGED mergeVars
  /\ UNCHANGED <<timeVars, vttVars, clientVars>>

\* What alignTranscript can hand to postProcessSegments: per segment the cue it
\* was made from, the speaker found (or null) and the agenda title (or null).
Cue(start, end, text) == [start |-> start, end |-> end, text |-> text]

PostChoices ==
  { [cue |-> Cue(0, 1000, TextA), speaker |-> "A", title |-> "X"],
    [cue |-> Cue(1500, 2400, TextBC), speaker |-> Null, title |-> "X"],
    [cue |-> Cue(4000, 5000, TextA), speaker |-> "A", title |-> "X"],
    [cue |-> Cue(4200, 4900, TextBC), speaker |-> "B", title |-> "X"],
    [cue |-> Cue(2000, 3000, TextA), speaker |-> "A", title |-> Null],
    [cue |-> Cue(1000, 4000, TextBC), speaker |-> "A", title |-> "X"],
    [cue |-> Cue(6000, 8000, TextA), speaker |-> "A", title |-> "X"],
    [cue |-> Cue(3000, 3600, TextA), speaker |-> Null, title |-> Null] }

\* alignTranscript has returned some segments; postProcessSegments is about to
\* be called with them.
InitPost ==
  /\ pc = "aligned"
  /\ graceWindow = DefaultGrace
  /\ agendaItems = <<>>
  /\ allSpeakers = <<>>
  /\ alignLog = <<>>
  /\ \E made \in SeqsUpTo(PostChoices, MaxSegs) :
       /\ cues = [i \in 1..Len(made) |-> made[i].cue]
       /\ cueIdx = Len(made)
       /\ segments = [i \in 1..Len(made) |->
                        MakeSegment(i, made[i].cue, made[i].speaker, made[i].title)]
  /\ PostIdle
  /\ LaterIdle

NextPost ==
  \/ FillBegin
  \/ FillGapStep
  \/ FillReturn
  \/ FillAgain
  \/ FillAgainReturn
  \/ MergeBegin
  \/ MergeStep
  \/ MergeReturn
  \/ MergeAgain
  \/ Validate
  \/ ScrapeThrow
  \/ ScrapeWrite

SpecPost == InitPost /\ [][NextPost]_vars

\* ------------------------------------------------------ the time parsers

\* Colon-separated parts and fractions a literal is written from.
PartChoices ==
  { <<>>, <<"1">>, <<"0", "1">>, <<"2", "3">>, <<"1", "2", "3">>, <<"x">>,
    <<"1", "x">> }

FractionChoices ==
  { <<>>, <<".", "5">>, <<".", "8", "5">>, <<".", "8", "5", "0">>, <<",", "5">>,
    <<",", "8", "5", "0">>, <<".">>, <<".", "1", "2", "3", "4">>, <<".", "x">> }

PartLists == UNION {[1..k -> PartChoices] : k \in 1..MaxParts}

MakeLiteral(parts, fraction) == JoinChars(parts, <<":">>) \o fraction

LiteralChoices == {MakeLiteral(p, f) : p \in PartLists, f \in FractionChoices}

\* The align and post-processing state of a run that does neither.
AlignIdle ==
  /\ graceWindow = DefaultGrace
  /\ agendaItems = <<>>
  /\ cues = <<>>
  /\ allSpeakers = <<>>
  /\ cueIdx = 0
  /\ segments = <<>>
  /\ alignLog = <<>>
  /\ PostIdle

\* Some literal is about to be handed to one of the parsers.
InitTime ==
  /\ pc = "timeLiteral"
  /\ literal \in LiteralChoices
  /\ parsed = NotParsed
  /\ AlignIdle
  /\ ScrapeIdle
  /\ VttIdle
  /\ ClientIdle

idleVars == <<alignVars, segments, postVars, scrapeVars, clientVars>>

TimeToSecondsCall ==
  /\ pc = "timeLiteral"
  /\ parsed' = TimeToSeconds(literal)
  /\ pc' = "timeToSeconds"
  /\ UNCHANGED <<literal, idleVars, vttVars>>

VttTimestampToSecondsCall ==
  /\ pc = "timeLiteral"
  /\ parsed' = VttTimestampToSeconds(literal)
  /\ pc' = "vttTimestampToSeconds"
  /\ UNCHANGED <<literal, idleVars, vttVars>>

ParseVTTTimestampCall ==
  /\ pc = "timeLiteral"
  /\ parsed' = ParseVTTTimestamp(literal)
  /\ pc' = "parseVTTTimestamp"
  /\ UNCHANGED <<literal, idleVars, vttVars>>

NextTime ==
  \/ TimeToSecondsCall
  \/ VttTimestampToSecondsCall
  \/ ParseVTTTimestampCall

SpecTime == InitTime /\ [][NextTime]_vars

\* ---------------------------------------------------- the caption payload

\* start --> end
Interval(start, end) == start \o <<" ">> \o Arrow \o <<" ">> \o end

\* Lines a payload is written from: the signature, an empty line, a comment, a
\* line of text (from a payload with CRLF line ends), a line of markup only,
\* two intervals, a line with an arrow that is no interval, an interval of
\* stamps without a colon, and an interval of stamps with empty parts.
LineChoices ==
  { Signature,
    <<>>,
    Note,
    <<"a", "\r">>,
    <<"<", "b", ">">>,
    Interval(MakeLiteral(<< <<"0", "1">>, <<"2", "3">> >>, <<".", "5">>),
             MakeLiteral(<< <<"0", "1">>, <<"2", "3">> >>, <<".", "8", "5", "0">>)),
    Interval(MakeLiteral(<< <<"1">>, <<"0", "1">>, <<"2", "3">> >>, <<",", "5">>),
             MakeLiteral(<< <<"1">>, <<"0", "1">>, <<"2", "3">> >>, <<".", "8", "5">>)),
    Interval(<<"a">>, <<"a">>),
    Interval(<<"1">>, <<"1">>),
    Interval(<<":", ":">>, <<":", ":">>) }

PayloadChoices ==
  {JoinChars(ls, <<"\n">>) : ls \in SeqsUpTo(LineChoices, MaxLines)}

\* Some payload is about to be handed to parseVTT.
InitVTT ==
  /\ pc = "parseVTT"
  /\ payload \in PayloadChoices
  /\ lines = <<>>
  /\ lineIdx = 0
  /\ vttCues = <<>>
  /\ AlignIdle
  /\ ScrapeIdle
  /\ TimeIdle
  /\ ClientIdle

\* parseVTT up to its cue loop.
ParseBegin ==
  /\ pc = "parseVTT"
  /\ lines' = TrimmedLines(payload)
  /\ lineIdx' = SkipHeader(lines')
  /\ pc' = "cueLoop"
  /\ UNCHANGED <<payload, vttCues, idleVars, timeVars>>

\* One iteration of while (i < lines.length); a break ends parseVTT.
ParseCueBlock ==
  /\ pc = "cueLoop"
  /\ lineIdx < Len(lines)
  /\ LET after == ParseBlock(lines, lineIdx, vttCues)
     IN  /\ lineIdx' = after.i
         /\ vttCues' = after.cues
         /\ pc' = IF after.break THEN "parsed" ELSE "cueLoop"
  /\ UNCHANGED <<payload, lines, idleVars, timeVars>>

\* The loop is over: return cues.
ParseReturn ==
  /\ pc = "cueLoop"
  /\ lineIdx >= Len(lines)
  /\ pc' = "parsed"
  /\ UNCHANGED <<payload, lines, lineIdx, vttCues, idleVars, timeVars>>

NextVTT == ParseBegin \/ ParseCueBlock \/ ParseReturn

SpecVTT == InitVTT /\ [][NextVTT]_vars

\* -------------------------------------------------- HttpClient.withRetry

\* JavaScript undefined (lastError before any assignment).
Undefined == "<undefined>"

\* How one invocation of the operation may end: it resolves with a value or
\* rejects with an error.
OperationOutcomes ==
  { [ok |-> TRUE, value |-> "r1"], [ok |-> TRUE, value |-> "r2"],
    [ok |-> FALSE, value |-> "e1"], [ok |-> FALSE, value |-> "e2"] }

BaseDelayChoices == {0, 500, 1000}

\* Mutant: the exponent is the attempt itself.
BackoffFromAttempt(base, k) == base * 2^k

\* baseDelay * Math.pow(2, attempt - 1)
Backoff(base, k) == base * 2^(k - 1)

\* Everything but the variables of the HTTP client and of the batch.
restVars == <<alignVars, segments, postVars, scrapeVars, timeVars, vttVars>>

\* withRetry has been called with some operation, maxRetries and baseDelay.
InitRetry ==
  /\ pc = "withRetry"
  /\ maxRetries \in 0..MaxRetries
  /\ baseDelay \in BaseDelayChoices
  /\ attempt = 1
  /\ lastError = Undefined
  /\ calls = <<>>
  /\ waits = <<>>
  /\ retried = NotRetried
  /\ AlignIdle
  /\ ScrapeIdle
  /\ TimeIdle
  /\ VttIdle
  /\ RateIdle
  /\ BatchIdle

\* One pass through the loop body up to its await on the timer: the operation
\* is invoked and resolves (return) or rejects (throw at the last attempt,
\* else on to the delay).
RetryAttempt ==
  /\ pc = "withRetry"
  /\ attempt <= maxRetries
  /\ \E o \in OperationOutcomes :
       /\ calls' = Append(calls, o)
       /\ IF o.ok
          THEN /\ retried' = [kind |-> "returned", value |-> o.value]
               /\ pc' = "retryReturned"
               /\ UNCHANGED lastError
          ELSE /\ lastError' = o.value
               /\ IF attempt = maxRetries
                  THEN /\ retried' = [kind |-> "threw", value |-> o.value]
                       /\ pc' = "retryThrew"
                  ELSE /\ pc' = "retryBackoff"
                       /\ UNCHANGED retried
  /\ UNCHANGED <<maxRetries, baseDelay, attempt, waits>>
  /\ UNCHANGED <<restVars, rateVars, batchVars>>

\* The timer of the delay fires; the loop goes on to the next attempt.
RetryBackoff ==
  /\ pc = "retryBackoff"
  /\ waits' = Append(waits, Backoff(baseDelay, attempt))
  /\ attempt' = attempt + 1
  /\ pc' = "withRetry"
  /\ UNCHANGED <<maxRetries, baseDelay, lastError, calls, retried>>
  /\ UNCHANGED <<restVars, rateVars, batchVars>>

\* The loop condition fails: throw lastError! behind the loop.
RetryFallThrough ==
  /\ pc = "withRetry"
  /\ attempt > maxRetries
  /\ retried' = [kind |-> "threw", value |-> lastError]
  /\ pc' = "retryThrew"
  /\ UNCHANGED <<maxRetries, baseDelay, attempt, lastError, calls, waits>>
  /\ UNCHANGED <<restVars, rateVars, batchVars>>

NextRetry == RetryAttempt \/ RetryBackoff \/ RetryFallThrough

SpecRetry == InitRetry /\ [][NextRetry]_vars

\* ------------------------------------------- HttpClient.enforceRateLimit

RateLimitChoices == {0, 2, 3}

\* Date.now() when the HttpClient is constructed.
ClockChoices == {1, 4}

\* Mutant: the time already passed is waited for.
RateLimitWaitElapsed(rateLimit, timeSinceLastRequest) == timeSinceLastRequest

\* const delay = this.rateLimitDelay - timeSinceLastRequest
RateLimitWait(rateLimit, timeSinceLastRequest) == rateLimit - timeSinceLastRequest

\* An HttpClient has been constructed with some rateLimitMs; no request yet.
InitRate ==
  /\ pc = "rateIdle"
  /\ clock \in ClockChoices
  /\ rateLimitDelay \in RateLimitChoices
  /\ lastRequestTime = 0
  /\ wakeAt = 0
  /\ releases = <<>>
  /\ AlignIdle
  /\ ScrapeIdle
  /\ TimeIdle
  /\ VttIdle
  /\ RetryIdle
  /\ BatchIdle

\* A millisecond passes: between two requests, while a request is under way,
\* while the timer is pending or after it is due.
Tick ==
  /\ pc \in {"rateIdle", "rateWaiting", "rateStamp"}
  /\ clock < MaxClock
  /\ clock' = clock + 1
  /\ UNCHANGED <<pc, rateLimitDelay, lastRequestTime, wakeAt, releases>>
  /\ UNCHANGED <<restVars, retryVars, batchVars>>

\* The request interceptor calls enforceRateLimit for the next request, the
\* one before it having been awaited: up to the await on the timer.
EnforceBegin ==
  /\ pc = "rateIdle"
  /\ Len(releases) < MaxRequests
  /\ LET now == clock
         timeSinceLastRequest == now - lastRequestTime
     IN  IF timeSinceLastRequest < rateLimitDelay
         THEN /\ wakeAt' = now + RateLimitWait(rateLimitDelay, timeSinceLastRequest)
              /\ pc' = "rateWaiting"
         ELSE /\ pc' = "rateStamp"
              /\ UNCHANGED wakeAt
  /\ UNCHANGED <<clock, rateLimitDelay, lastRequestTime, releases>>
  /\ UNCHANGED <<restVars, retryVars, batchVars>>

\* The timer fires, not before it is due.
TimerFires ==
  /\ pc = "rateWaiting"
  /\ clock >= wakeAt
  /\ pc' = "rateStamp"
  /\ UNCHANGED <<clock, rateLimitDelay, lastRequestTime, wakeAt, releases>>
  /\ UNCHANGED <<restVars, retryVars, batchVars>>

\* this.lastRequestTime = Date.now(); the request is sent.
EnforceStamp ==
  /\ pc = "rateStamp"
  /\ lastRequestTime' = clock
  /\ releases' = Append(releases, clock)
  /\ pc' = "rateIdle"
  /\ UNCHANGED <<clock, rateLimitDelay, wakeAt>>
  /\ UNCHANGED <<restVars, retryVars, batchVars>>

NextRate == Tick \/ EnforceBegin \/ TimerFires \/ EnforceStamp

SpecRate == InitRate /\ [][NextRate]_vars

\* ------------------------------------------ scrapeMultiple, scrapeAgenda

\* Agenda URLs as their path segments: two that end in the UUID of a meeting
\* and one that ends in a slash.
UrlChoices == { <<"agenda", "m1">>, <<"agenda", "m2">>, <<"agenda", "">> }

\* agendaUrl.split('/').pop() || 'unknown'
Pop(url) == IF url[Len(url)] = "" THEN "unknown" ELSE url[Len(url)]

\* extractUuidFromUrl has thrown.
NoUuid == "<thrown>"

\* extractUuidFromUrl: the last path segment when it is a UUID, else it throws.
ExtractUuidFromUrl(url) == IF url[Len(url)] = "" THEN NoUuid ELSE url[Len(url)]

\* The webcast code the agenda page of a meeting carries once there is a
\* webcast.
WebcastCodeOf(uuid) == "gemeentelansingerland_" \o uuid

\* path.join(this.outputDir, `${meetingId}.json`)
OutputFile(meetingId) == "output/" \o meetingId \o ".json"

MeetingIds ==
  UNION {{url[Len(url)], WebcastCodeOf(url[Len(url)])} :
           url \in {u \in UrlChoices : u[Len(u)] # ""}}

FileNames == {OutputFile(id) : id \in MeetingIds}

\* No such file.
Absent == [writer |-> 0 - 1, kind |-> "none"]

\* What a call of scrapeAgenda meets: the agenda page cannot be fetched; it
\* carries no webcast code; or it carries one, and then the webcast cannot be
\* resolved, has no cues, fails validation, or yields a transcript.
EnvChoices ==
  { [page |-> "error", pipeline |-> "none"],
    [page |-> "future", pipeline |-> "none"],
    [page |-> "webcast", pipeline |-> "resolveFails"],
    [page |-> "webcast", pipeline |-> "noCues"],
    [page |-> "webcast", pipeline |-> "invalid"],
    [page |-> "webcast", pipeline |-> "ok"] }

\* processedSegments.length of a transcript.
TranscriptLength == 2

\* The output directory before the batch: empty, or holding one file of an
\* earlier run.
ExistingChoices ==
  {[f \in FileNames |-> Absent]} \cup
  {[f \in FileNames |-> IF f = g THEN [writer |-> 0, kind |-> "transcript"] ELSE Absent] :
     g \in {OutputFile(WebcastCodeOf("m1")), OutputFile("m2")}}

\* Mutant: an existing file is never a reason to skip.
ShouldSkipNever(skipExisting, exists) == FALSE

\* options.skipExisting && await this.fileExists(outputFile)
ShouldSkip(skipExisting, exists) == skipExisting /\ exists

\* The ScrapingResult of the catch block.
Failure(url, message) ==
  [success |-> FALSE, meetingId |-> Pop(url), outputFile |-> Undefined,
   error |-> message, videoAvailable |-> FALSE, transcriptSegments |-> 0]

\* The ScrapingResult of the three returns of the try block.
Success(meetingId, videoAvailable, transcriptSegments) ==
  [success |-> TRUE, meetingId |-> meetingId, outputFile |-> OutputFile(meetingId),
   error |-> Undefined, videoAvailable |-> videoAvailable,
   transcriptSegments |-> transcriptSegments]

\* scrapeAgenda, called as the n-th of the batch on url with the directory
\* fs and meeting env: its result, the directory behind it, whether
\* resolveAndDownloadVTT was called and whether fs.writeFile was.
ScrapeAgenda(url, skipExisting, env, fs, n) ==
  LET uuid == ExtractUuidFromUrl(url)
      meetingId == IF env.page = "webcast" THEN WebcastCodeOf(uuid) ELSE uuid
      file == OutputFile(meetingId)
      untouched(failure, resolved) ==
        [result |-> failure, files |-> fs, existed |-> FALSE,
         resolveCalled |-> resolved, wrote |-> FALSE]
  IN  IF env.page = "error" THEN untouched(Failure(url, "agenda"), FALSE)
      ELSE IF uuid = NoUuid THEN untouched(Failure(url, "uuid"), FALSE)
      ELSE IF ShouldSkip(skipExisting, fs[file] # Absent)
      THEN [result |-> Success(meetingId, FALSE, 0), files |-> fs,
            existed |-> TRUE, resolveCalled |-> FALSE, wrote |-> FALSE]
      ELSE IF env.page = "future"
      THEN [result |-> Success(meetingId, FALSE, 0),
            files |-> [fs EXCEPT ![file] = [writer |-> n, kind |-> "future"]],
            existed |-> fs[file] # Absent,
            resolveCalled |-> FALSE, wrote |-> TRUE]
      ELSE IF env.pipeline = "ok"
      THEN [result |-> Success(meetingId, TRUE, TranscriptLength),
            files |-> [fs EXCEPT ![file] = [writer |-> n, kind |-> "transcript"]],
            existed |-> fs[file] # Absent,
            resolveCalled |-> TRUE, wrote |-> TRUE]
      ELSE [result |-> Failure(url, env.pipeline), files |-> fs,
            existed |-> fs[file] # Absent,
            resolveCalled |-> TRUE, wrote |-> FALSE]

\* Mutant: any failure ends the batch.
StopOnAnyFailure(success, continueOnError) == ~success

\* if (!result.success && !options.continueOnError) break
StopOnFailure(success, continueOnError) == ~success /\ ~continueOnError

\* scrapeMultiple has been called with some URLs and options.
InitBatch ==
  /\ pc = "scrapeMultiple"
  /\ agendaUrls \in SeqsUpTo(UrlChoices, MaxUrls)
  /\ options \in [skipExisting : BOOLEAN, continueOnError : BOOLEAN]
  /\ files \in ExistingChoices
  /\ urlIdx = 0
  /\ results = <<>>
  /\ callLog = <<>>
  /\ AlignIdle
  /\ ScrapeIdle
  /\ TimeIdle
  /\ VttIdle
  /\ RetryIdle
  /\ RateIdle

\* One iteration of scrapeMultiple's loop: scrapeAgenda on the next URL, its
\* result pushed, then break or i++. (scrapeAgenda catches what it throws,
\* so the catch block of the loop is not entered.)
BatchStep ==
  /\ pc = "scrapeMultiple"
  /\ urlIdx < Len(agendaUrls)
  /\ \E env \in EnvChoices :
       LET url == agendaUrls[urlIdx + 1]
           call == ScrapeAgenda(url, options.skipExisting, env, files, urlIdx + 1)
       IN  /\ results' = Append(results, call.result)
           /\ files' = call.files
           /\ callLog' = Append(callLog,
                            [url |-> url, env |-> env, filesBefore |-> files,
                             filesAfter |-> call.files, existed |-> call.existed,
                             resolveCalled |-> call.resolveCalled,
                             wrote |-> call.wrote])
           /\ IF StopOnFailure(call.result.success, options.continueOnError)
              THEN pc' = "batchDone" /\ UNCHANGED urlIdx
              ELSE urlIdx' = urlIdx + 1 /\ UNCHANGED pc
  /\ UNCHANGED <<agendaUrls, options>>
  /\ UNCHANGED <<restVars, retryVars, rateVars>>

\* The loop is over: return results.
BatchReturn ==
  /\ pc = "scrapeMultiple"
  /\ urlIdx >= Len(agendaUrls)
  /\ pc' = "batchDone"
  /\ UNCHANGED <<agendaUrls, options, files, urlIdx, results, callLog>>
  /\ UNCHANGED <<restVars, retryVars, rateVars>>

NextBatch == BatchStep \/ BatchReturn

SpecBatch == InitBatch /\ [][NextBatch]_vars

\* ------------------------------------------------- claims on alignTranscript

\* What the k-th handled cue was matched against.
CueTime(k) == cues[k].start
InGrace(k, i) ==
  /\ allSpeakers[i].startSec - graceWindow <= CueTime(k)
  /\ CueTime(k) < allSpeakers[i].endSec + graceWindow
Candidates(k) ==
  {i \in 1..Len(allSpeakers) :
     IsTimeInWindow(CueTime(k), allSpeakers[i].startSec, allSpeakers[i].endSec,
                    graceWindow)}
Distance(k, i) == Abs(CueTime(k) - allSpeakers[i].startSec)

C2_InWindow ==
  \A k \in 1..Len(alignLog) : \A i \in 1..Len(allSpeakers) :
    (\E n \in 1..Len(alignLog[k].matching) : alignLog[k].matching[n] = i)
      <=> InGrace(k, i)

\* With a positive grace, a cue exactly at start - grace was kept and a cue
\* exactly at end + grace was not.
C2_Witness ==
  /\ graceWindow > 0
  /\ \E k \in 1..Len(alignLog) : \E i \in 1..Len(allSpeakers) :
       /\ CueTime(k) = allSpeakers[i].startSec - graceWindow
       /\ \E n \in 1..Len(alignLog[k].matching) : alignLog[k].matching[n] = i
  /\ \E k \in 1..Len(alignLog) : \E i \in 1..Len(allSpeakers) :
       /\ CueTime(k) = allSpeakers[i].endSec + graceWindow
       /\ \A n \in 1..Len(alignLog[k].matching) : alignLog[k].matching[n] # i

ItemCovers(k, a) ==
  \E w \in 1..Len(agendaItems[a].speakers) :
    /\ agendaItems[a].speakers[w].startSec - graceWindow <= CueTime(k)
    /\ CueTime(k) < agendaItems[a].speakers[w].endSec + graceWindow

\* C3: the agenda item of a cue is (a) the item whose id the matched window
\* carries, (b) without a match the first item in declaration order with a
\* window around the cue's start, (c) else the first item, or none when there
\* is no item; agenda_item is its title, or null.
C3_AgendaTiers ==
  \A k \in 1..Len(alignLog) :
    LET m == alignLog[k].matchedSpeaker
        a == alignLog[k].agendaItem
        covering == {i \in 1..Len(agendaItems) : ItemCovers(k, i)}
    IN  /\ a \in 0..Len(agendaItems)
        /\ m # 0 => a # 0 /\ agendaItems[a].id = allSpeakers[m].agendaItemId
        /\ m = 0 /\ covering # {} => a \in covering /\ \A i \in covering : a <= i
        /\ m = 0 /\ covering = {} => a = (IF Len(agendaItems) > 0 THEN 1 ELSE 0)
        /\ a = 0 => segments[k].agenda_item = Null
        /\ a # 0 /\ agendaItems[a].title # "" =>
             segments[k].agenda_item = agendaItems[a].title
        /\ a # 0 /\ agendaItems[a].title = "" => segments[k].agenda_item = Null

\* One cue was matched by a window of the second item although the first item
\* has a window around it too; another cue, unmatched, fell back to the first.
C3_Witness ==
  /\ pc = "aligned"
  /\ \E k \in 1..Len(alignLog) :
       /\ alignLog[k].matchedSpeaker # 0
       /\ alignLog[k].agendaItem = 2
       /\ ItemCovers(k, 1)
       /\ segments[k].agenda_item = "Y"
  /\ \E k \in 1..Len(alignLog) :
       /\ alignLog[k].matchedSpeaker = 0
       /\ alignLog[k].agendaItem = 1
       /\ segments[k].agenda_item = "X"

\* C4 as stated: speaker_name is the chosen window's speakerName, and is null
\* exactly when no window contains cue.start within the grace tolerance.
C4_AsStated ==
  \A k \in 1..Len(alignLog) :
    LET m == alignLog[k].matchedSpeaker
    IN  /\ m # 0 => segments[k].speaker_name = allSpeakers[m].speakerName
        /\ segments[k].speaker_name = Null
             <=> ~ \E i \in 1..Len(allSpeakers) : InGrace(k, i)

\* C4 (amended): speaker_name is the chosen window's speakerName when that
\* name is not empty, and it is null exactly when no window contains
\* cue.start within the grace tolerance or the chosen window's name is empty.
C4_SpeakerName ==
  \A k \in 1..Len(alignLog) :
    LET m == alignLog[k].matchedSpeaker
    IN  /\ m # 0 /\ allSpeakers[m].speakerName # "" =>
             segments[k].speaker_name = allSpeakers[m].speakerName
        /\ segments[k].speaker_name = Null
             <=> \/ ~ \E i \in 1..Len(allSpeakers) : InGrace(k, i)
                 \/ m # 0 /\ allSpeakers[m].speakerName = ""

\* The cue 0.5 s before the only window, with grace 0.35 s, got no speaker;
\* the next cue got the window's speaker.
C4_Witness ==
  /\ pc = "aligned"
  /\ graceWindow = DefaultGrace
  /\ Len(allSpeakers) = 1
  /\ Len(cues) = 2
  /\ cues[1].start = allSpeakers[1].startSec - 500
  /\ segments[1].speaker_name = Null
  /\ segments[2].speaker_name = "Jules Bijl"

\* C5: alignTranscript emits one segment per cue, in cue order:
\* output[i].video_seconds = floor(cues[i].start) and
\* output[i].transcript_text = cues[i].text.
C5_OnePerCue ==
  /\ Len(segments) = cueIdx
  /\ pc = "aligned" => Len(segments) = Len(cues)
  /\ \A i \in 1..Len(segments) :
       /\ segments[i].transcript_text = cues[i].text
       /\ segments[i].video_seconds * 1000 <= cues[i].start
       /\ cues[i].start < (segments[i].video_seconds + 1) * 1000

\* Two cues given out of order came out in the order given.
C5_Witness ==
  /\ pc = "aligned"
  /\ Len(cues) = 2
  /\ cues[1].start > cues[2].start
  /\ segments[1].video_seconds > segments[2].video_seconds

\* --------------------------------------------- claims on postProcessSegments

FillDone == pc \in {"merge", "mergeLoop", "merged"}

\* The segment at i had, before the pass, a predecessor and a successor with
\* one and the same speaker.
Flanked(i) ==
  /\ 1 < i
  /\ i < Len(preFill)
  /\ preFill[i - 1].speaker_name # Null
  /\ preFill[i + 1].speaker_name # Null
  /\ preFill[i - 1].speaker_name = preFill[i + 1].speaker_name

\* C6: the gap-fill pass gives a speaker to a segment without one exactly when
\* the segment has a predecessor and a successor, both with a speaker, the
\* same one, and gives it that speaker; every other segment is left as it was.
C6_GapFill ==
  FillDone =>
    /\ Len(segments) = Len(preFill)
    /\ \A i \in 1..Len(segments) :
         /\ preFill[i].speaker_name = Null =>
              /\ segments[i].speaker_name # Null <=> Flanked(i)
              /\ Flanked(i) => segments[i].speaker_name = preFill[i - 1].speaker_name
         /\ preFill[i].speaker_name # Null => segments[i] = preFill[i]
         /\ segments[i] = [preFill[i] EXCEPT !.speaker_name = segments[i].speaker_name]

\* A segment between two segments of one speaker was filled, and the first
\* segment, with a speaker after it only, stayed without one.
C6_Witness ==
  /\ FillDone
  /\ Len(segments) >= 3
  /\ preFill[1].speaker_name = Null
  /\ preFill[2].speaker_name # Null
  /\ segments[1].speaker_name = Null
  /\ \E i \in 1..Len(segments) :
       preFill[i].speaker_name = Null /\ segments[i].speaker_name = "A"

SpeakersBefore == [i \in 1..Len(preFill) |-> preFill[i].speaker_name]

\* C7 as stated: of the speakers A, null, null, A the pass fills both gaps
\* with A.
C7_AsStated ==
  FillDone /\ SpeakersBefore = <<"A", Null, Null, "A">> =>
    segments[2].speaker_name = "A" /\ segments[3].speaker_name = "A"

\* C7 (amended): of the speakers A, null, null, A the pass fills neither gap:
\* both segments keep the speaker null.
C7_NeitherFilled ==
  FillDone /\ SpeakersBefore = <<"A", Null, Null, "A">> =>
    segments[2].speaker_name = Null /\ segments[3].speaker_name = Null

\* The pass has run over A, null, null, A.
C7_Witness ==
  /\ pc = "merge"
  /\ SpeakersBefore = <<"A", Null, Null, "A">>
  /\ fillIdx = 4

Gap(acc, next) == next.video_seconds - (acc.video_seconds + acc.duration_seconds)

\* C8: the next segment is merged into the accumulator exactly when both have
\* the same speaker_name, the same agenda_item, the accumulator lasts less
\* than 2 s and the next starts less than 5 s after the accumulator's end;
\* otherwise the accumulator goes to the output and the next segment is the
\* new accumulator.
C8_MergeCondition ==
  \A n \in 1..Len(mergeLog) :
    LET e == mergeLog[n]
    IN  /\ e.shouldMerge <=>
             /\ e.acc.speaker_name = e.next.speaker_name
             /\ e.acc.agenda_item = e.next.agenda_item
             /\ e.acc.duration_seconds < 2
             /\ Gap(e.acc, e.next) < 5
        /\ e.shouldMerge => e.out = e.before
        /\ ~e.shouldMerge => e.out = Append(e.before, e.acc) /\ e.after = e.next

\* Two segments of speaker A under agenda X, 1 s long each and 3 s apart, were
\* the whole input and came out as one segment.
C8_Witness ==
  /\ pc = "merged"
  /\ Len(mergeIn) = 2
  /\ Len(result) = 1
  /\ mergeLog[1].shouldMerge
  /\ mergeLog[1].acc.speaker_name = "A" /\ mergeLog[1].next.speaker_name = "A"
  /\ mergeLog[1].acc.agenda_item = "X" /\ mergeLog[1].next.agenda_item = "X"
  /\ mergeLog[1].acc.duration_seconds = 1 /\ mergeLog[1].next.duration_seconds = 1
  /\ Gap(mergeLog[1].acc, mergeLog[1].next) = 3

Merges == {n \in 1..Len(mergeLog) : mergeLog[n].shouldMerge}

\* C9: a merge sets transcript_text to old text, one space, next text, sets
\* timestamp_end to the next's, duration_seconds to next.video_seconds +
\* next.duration_seconds - accumulator.video_seconds, adds up word_count and
\* char_count, leaves the other six fields alone, and the absorbed segment is
\* no element of the output.
C9_MergeEffect ==
  /\ \A n \in Merges :
       LET e == mergeLog[n]
       IN  /\ e.after.transcript_text =
                e.acc.transcript_text \o <<" ">> \o e.next.transcript_text
           /\ e.after.timestamp_end = e.next.timestamp_end
           /\ e.after.duration_seconds =
                e.next.video_seconds + e.next.duration_seconds - e.acc.video_seconds
           /\ e.after.word_count = e.acc.word_count + e.next.word_count
           /\ e.after.char_count = e.acc.char_count + e.next.char_count
           /\ e.after.segment_id = e.acc.segment_id
           /\ e.after.speaker_name = e.acc.speaker_name
           /\ e.after.agenda_item = e.acc.agenda_item
           /\ e.after.video_seconds = e.acc.video_seconds
           /\ e.after.timestamp_start = e.acc.timestamp_start
           /\ e.after.segment_type = e.acc.segment_type
           /\ e.out = e.before
  /\ pc = "merged" /\ Len(mergeIn) > 0 =>
       Len(result) = Len(mergeIn) - Cardinality(Merges)

\* A segment absorbed one that starts after a pause, with another text and
\* another end.
C9_Witness ==
  /\ pc = "merged"
  /\ \E n \in Merges :
       /\ mergeLog[n].next.timestamp_end # mergeLog[n].acc.timestamp_end
       /\ mergeLog[n].next.transcript_text # mergeLog[n].acc.transcript_text
       /\ Gap(mergeLog[n].acc, mergeLog[n].next) > 0
       /\ mergeLog[n].after.duration_seconds >
            mergeLog[n].acc.duration_seconds + mergeLog[n].next.duration_seconds

\* C10: the merge pass applied to its own output returns it unchanged, field
\* by field.
C10_MergeIdempotent ==
  pc = "merged" /\ pass = 2 => result = firstResult

\* The second pass has run over an output in which the first pass had merged
\* segments and which still holds several segments.
C10_Witness ==
  /\ pc = "merged"
  /\ pass = 2
  /\ Len(firstResult) >= 2
  /\ Len(firstResult) < Len(segments)
  /\ mergeIn = firstResult

\* ------------------------------------------- claims on validateAlignment

\* validateAlignment has been called on the post-processed segments.
Validated == pc \in {"validated", "failed", "written"}

\* The adjacent pairs of the validated sequence whose later member starts
\* strictly earlier.
Decreasing ==
  {i \in 1..(Len(result) - 1) : result[i + 1].video_seconds < result[i].video_seconds}

\* C11: validateAlignment returns valid = false exactly when the sequence is
\* empty (the single error "No segments generated") or some adjacent pair has
\* the later video_seconds strictly below the earlier one, with one error per
\* such pair; equal video_seconds are no error; valid is "errors is empty".
C11_Validity ==
  Validated =>
    /\ validation.valid = (validation.errors = <<>>)
    /\ (~validation.valid) = (Len(result) = 0 \/ Decreasing # {})
    /\ Len(result) = 0 => validation.errors = <<"No segments generated">>
    /\ Len(result) > 0 => Len(validation.errors) = Cardinality(Decreasing)

C11_Witness ==
  /\ pc = "validated"
  /\ Len(validation.errors) = 1
  /\ Len(result) = 3
  /\ \E i \in 1..2 : result[i].video_seconds = result[i + 1].video_seconds

PercentTexts == {NumberToString(p) \o "%" : p \in 0..100}

Warns(prefix) ==
  \E k \in 1..Len(validation.warnings) : \E t \in PercentTexts :
    validation.warnings[k] = prefix \o t

WithSpeaker == {i \in 1..Len(result) : result[i].speaker_name # Null}
WithAgenda == {i \in 1..Len(result) : result[i].agenda_item # Null}

C13_NoOutputWhenInvalid ==
  /\ (pc \in {"failed", "written"} /\ ~validation.valid) =>
       /\ ~outputFile.written
       /\ scrapingResult.success = FALSE
       /\ scrapingResult.transcriptSegments = 0
  /\ outputFile.written =>
       /\ validation.valid
       /\ outputFile.segments = result

C13_Witness ==
  /\ pc = "failed"
  /\ Len(result) > 1
  /\ validation.warnings = <<>>
  /\ ~outputFile.written

\* ---------------------------------------------- claims on the segment ids

\* postProcessSegments has returned the sequence that is serialized.
PostProcessed == (pc = "merged" /\ pass = 1) \/ Validated

\* C14 as stated: in the final sequence (alignTranscript, then
\* postProcessSegments) the k-th segment has segment_id k in decimal, padded
\* with zeros to 3 digits.
C14_AsStated ==
  PostProcessed =>
    \A k \in 1..Len(result) : result[k].segment_id = PadStart(NumberToString(k), 3)

\* ------------------------------------------ claims on the agenda item scan

\* The item findAgendaItemForCue ends at when nothing else selects one.
Fallback == IF Len(agendaItems) > 0 THEN 1 ELSE 0

\* Step 1 finds no window for the cue and still an item of the agenda has a
\* window around the cue's start.
ScanSelectsUnmatched(items, cue, grace) ==
  /\ FindBestSpeakerWindow(cue.start, CollectAllSpeakers(items), grace) = 0
  /\ \E i \in 1..Len(items) : IsCueInAgendaItemTimeRange(cue, items[i], grace)

\* C15 as stated: among the agendas (unique, non-empty ids), cues and grace
\* windows an alignment can be started with there is a case where
\* findBestSpeakerWindow returns null for the cue and the scan by time range
\* selects an item.
C15_AsStated ==
  pc = "alignTranscript" =>
    \E items \in AgendaChoices : \E cue \in CueChoices : \E grace \in GraceChoices :
      ScanSelectsUnmatched(items, cue, grace)

\* C15: with unique, non-empty ids the scan by time range never selects an item
\* for a cue findBestSpeakerWindow found no window for: no item has a window
\* around the cue's start then, and the cue gets the first item (or none when
\* the agenda is empty).
C15_ScanSelectsNothing ==
  \A k \in 1..Len(alignLog) :
    alignLog[k].matchedSpeaker = 0 =>
      /\ \A i \in 1..Len(agendaItems) : ~ItemCovers(k, i)
      /\ alignLog[k].agendaItem = Fallback

\* An unmatched cue starting exactly where a window of the second item ends,
\* grace included, got the first item.
C15_Witness ==
  /\ pc = "aligned"
  /\ Len(agendaItems) = 2
  /\ \E k \in 1..Len(alignLog) :
       /\ alignLog[k].matchedSpeaker = 0
       /\ alignLog[k].agendaItem = 1
       /\ \E w \in 1..Len(agendaItems[2].speakers) :
            CueTime(k) = agendaItems[2].speakers[w].endSec + graceWindow

\* ------------------------------------------------ claims on segment times

ScenarioCue == [start |-> 83200, end |-> 85000, text |-> TextDames]
ScenarioWindow == [startSec |-> 76000, endSec |-> 454000, speakerName |-> "Jules Bijl"]

IsScenario(k) ==
  /\ cues[k] = ScenarioCue
  /\ graceWindow = DefaultGrace
  /\ Len(allSpeakers) = 1
  /\ [startSec |-> allSpeakers[1].startSec, endSec |-> allSpeakers[1].endSec,
      speakerName |-> allSpeakers[1].speakerName] = ScenarioWindow

\* C16: the cue {83.2, 85.0} with the sole window {76, 454, "Jules Bijl"} and
\* grace 0.35 gives speaker_name "Jules Bijl", video_seconds 83 and
\* duration_seconds 2; in general duration_seconds is end - start rounded to
\* the nearest integer and video_seconds is the floor of start.
C16_Scenario ==
  \A k \in 1..Len(segments) :
    /\ IsScenario(k) =>
         /\ segments[k].speaker_name = "Jules Bijl"
         /\ segments[k].video_seconds = 83
         /\ segments[k].duration_seconds = 2
    /\ 2 * Abs(1000 * segments[k].duration_seconds - (cues[k].end - cues[k].start))
         <= 1000
    /\ 1000 * segments[k].video_seconds <= cues[k].start
    /\ cues[k].start < 1000 * (segments[k].video_seconds + 1)

C16_Witness ==
  /\ pc = "aligned"
  /\ \E k \in 1..Len(segments) : IsScenario(k)

\* --------------------------------------------- claims on the grace window

LargerGraces == {graceWindow + d : d \in {0, DefaultGrace, 1000}} \cup GraceChoices

\* C17: a time inside a window with grace g is inside it with every grace
\* g' >= g, so a cue that has a matching window with grace g has one with
\* every larger grace.
C17_GraceMonotone ==
  \A k \in 1..Len(alignLog) : \A g \in LargerGraces :
    g >= graceWindow =>
      /\ \A n \in 1..Len(alignLog[k].matching) :
           LET w == allSpeakers[alignLog[k].matching[n]]
           IN  IsTimeInWindow(CueTime(k), w.startSec, w.endSec, g)
      /\ alignLog[k].matchedSpeaker # 0 =>
           FindBestSpeakerWindow(CueTime(k), allSpeakers, g) # 0

\* Without grace one cue has a matching window and another has none, but
\* would have one with the default grace.
C17_Witness ==
  /\ pc = "aligned"
  /\ graceWindow = 0
  /\ \E k \in 1..Len(alignLog) : alignLog[k].matchedSpeaker # 0
  /\ \E k \in 1..Len(alignLog) :
       /\ alignLog[k].matchedSpeaker = 0
       /\ FindBestSpeakerWindow(CueTime(k), allSpeakers, DefaultGrace) # 0

\* ------------------------------------------- claims on the time parsers

TimeParsed == pc \in {"timeToSeconds", "vttTimestampToSeconds", "parseVTTTimestamp"}

\* A fraction of 1 to 3 digits behind a period or a comma.
IsFraction(f) == Len(f) > 1 /\ f[1] \in {".", ","} /\ Digits(Tail(f), 1, 3)

\* The literals of the forms MM:SS, HH:MM:SS, H:MM:SS.mmm and MM:SS.mmm, read
\* with one or two digits wherever two stand and one to three digits of
\* fraction.
AcceptedLiterals ==
  {MakeLiteral(p, f) :
     p \in {q \in PartLists : Len(q) \in {2, 3} /\ \A i \in 1..Len(q) : Digits(q[i], 1, 2)},
     f \in {<<>>} \cup {g \in FractionChoices : IsFraction(g)}}

\* C19 as stated: timeToSeconds, vttTimestampToSeconds and parseVTTTimestamp
\* fail with an error on every literal that is not of one of the accepted
\* forms; they return no number and no NaN for it.
C19_AsStated ==
  (TimeParsed /\ literal \notin AcceptedLiterals) => parsed.kind = "error"

\* The three shapes with their value in ms: one or two digits of hours or of
\* minutes in front, two digits in every later part, a fraction of 1 to 3
\* digits that stands for thousandths once padded with zeros on the right.
FractionMs(f) ==
  Decimal(Tail(f)) * (CASE Len(f) = 2 -> 100 [] Len(f) = 3 -> 10 [] OTHER -> 1)

ShapedLiterals ==
  {[lit |-> MakeLiteral(p, f),
    ms |-> IF Len(p) = 3
           THEN Decimal(p[1]) * 3600000 + Decimal(p[2]) * 60000
                + Decimal(p[3]) * 1000 + FractionMs(f)
           ELSE Decimal(p[1]) * 60000 + Decimal(p[2]) * 1000 + FractionMs(f)] :
     p \in {q \in PartLists :
              /\ Len(q) \in {2, 3}
              /\ Digits(q[1], 1, 2)
              /\ \A i \in 2..Len(q) : Digits(q[i], 2, 2)},
     f \in {g \in FractionChoices : IsFraction(g)}}

\* C20: parseVTTTimestamp accepts H:MM:SS.mmm, MM:SS.mmm (one or two digits of
\* minutes) and HH:MM:SS.mmm, with a comma or a period before the fraction, and
\* returns hours * 3600 + minutes * 60 + seconds + ms / 1000, a fraction of one
\* or two digits being padded on the right to three (".5" is 500 ms, ".85" is
\* 850 ms) in each shape.
C20_Timestamp ==
  pc = "parseVTTTimestamp" =>
    \A s \in ShapedLiterals : literal = s.lit => parsed = Number(s.ms)

\* "1:01:23,5" gave 3683.5 s.
C20_Witness ==
  /\ pc = "parseVTTTimestamp"
  /\ literal = <<"1", ":", "0", "1", ":", "2", "3", ",", "5">>
  /\ parsed = Number(3683500)

\* ------------------------------------------------------ claims on parseVTT

\* The stamp is of one of the shapes a caption timestamp has.
IsTimestamp(stamp) == \E s \in ShapedLiterals : s.lit = stamp

\* The body of the block whose interval line is lines[k]: the lines that follow
\* it up to an empty line or a line with an arrow.
BodyOf(k) == SubSeq(lines, k + 1, TextEnd(lines, k))

\* The block at lines[k] is one that contributes a cue: its interval line
\* parses, both its stamps are timestamps, it has a body and the cleaned text
\* of the body is not empty.
Contributes(k) ==
  /\ TimingMatch(lines[k]).matched
  /\ IsTimestamp(TimingMatch(lines[k]).startTime)
  /\ IsTimestamp(TimingMatch(lines[k]).endTime)
  /\ Len(BodyOf(k)) > 0
  /\ Len(CleanCueText(JoinChars(BodyOf(k), <<" ">>))) > 0

\* The texts of the contributing blocks from lines[k] on, in payload order.
RECURSIVE ExpectedTexts(_)
ExpectedTexts(k) ==
  IF k > Len(lines) THEN <<>>
  ELSE (IF Contributes(k)
        THEN <<CleanCueText(JoinChars(BodyOf(k), <<" ">>))>>
        ELSE <<>>)
       \o ExpectedTexts(k + 1)

\* C18 as stated, for a payload that begins with the signature line: parseVTT
\* returns, and its cues are those of the blocks with a valid interval line
\* and a body with non-empty cleaned text, one each and in payload order; a
\* block whose interval line does not parse, whose timestamps cannot be
\* converted, that has no body or whose cleaned text is empty contributes
\* none.
C18_AsStated ==
  (pc = "parsed" /\ StartsWith(lines[1], Signature)) =>
    [n \in 1..Len(vttCues) |-> vttCues[n].text] = ExpectedTexts(2)

\* ------------------------------------- claims on post-processing as a whole

\* The adjacent pairs of alignTranscript's output whose later member starts
\* strictly earlier.
DecreasingAligned ==
  {i \in 1..(Len(preFill) - 1) :
     preFill[i + 1].video_seconds < preFill[i].video_seconds}

\* C25 as stated: when alignTranscript's output has an adjacent pair with
\* decreasing video_seconds, validateAlignment, run on what
\* postProcessSegments made of that output, reports valid = false.
C25_AsStated ==
  Validated /\ DecreasingAligned # {} => ~validation.valid

\* C26 as stated: every segment of the final sequence, merged or not, has
\* char_count equal to the number of characters of its transcript_text and
\* word_count equal to the number of its whitespace-separated words.
C26_AsStated ==
  PostProcessed =>
    \A k \in 1..Len(result) :
      /\ result[k].char_count = Len(result[k].transcript_text)
      /\ result[k].word_count = CountWords(result[k].transcript_text)

RECURSIVE SumWords(_)
SumWords(segs) ==
  IF Len(segs) = 0 THEN 0 ELSE Head(segs).word_count + SumWords(Tail(segs))

\* The input segment each output segment started from, by segment_id (0 when
\* there is none).
GroupStart(k) ==
  FirstIndex({i \in 1..Len(mergeIn) : mergeIn[i].segment_id = result[k].segment_id})

\* The last input segment of the k-th output segment's group.
GroupEnd(k) == IF k = Len(result) THEN Len(mergeIn) ELSE GroupStart(k + 1) - 1

\* The texts of the input segments a..b, joined with single spaces.
GroupText(a, b) ==
  JoinChars([j \in 1..(b - a + 1) |-> mergeIn[a + j - 1].transcript_text], <<" ">>)

\* C28: mergeShortSegments loses nothing. The output segments start from
\* input segments in input order, the first from the first input; each output
\* carries the texts of its input segment and of the inputs up to the next
\* start, so every input is the start of exactly one output or absorbed into
\* exactly one; the word_counts add up to the same sum; the output is no
\* longer than the input and non-empty when the input is; and the input
\* array is as it was.
C28_MergeLosesNothing ==
  pc = "merged" =>
    /\ Len(result) <= Len(mergeIn)
    /\ Len(mergeIn) > 0 => Len(result) > 0 /\ GroupStart(1) = 1
    /\ \A k \in 1..Len(result) : GroupStart(k) # 0
    /\ \A k \in 1..(Len(result) - 1) : GroupStart(k) < GroupStart(k + 1)
    /\ \A k \in 1..Len(result) :
         result[k].transcript_text = GroupText(GroupStart(k), GroupEnd(k))
    /\ SumWords(result) = SumWords(mergeIn)
    /\ mergeIn = IF pass = 1 THEN segments ELSE firstResult

\* Three segments went in; one was absorbed, one was not.
C28_Witness ==
  /\ pc = "merged"
  /\ Len(mergeIn) = 3
  /\ Len(result) = 2
  /\ Merges # {}

\* The speaker_name the sweep's rule gives segment i from the values the
\* segments had before the sweep.
FillFromBefore(i) ==
  FillSpeaker(preFill[i].speaker_name,
              IF i > 1 THEN preFill[i - 1].speaker_name ELSE Null,
              IF i < Len(preFill) THEN preFill[i + 1].speaker_name ELSE Null)

\* The segments the sweep has given a speaker so far.
Filled ==
  {i \in 1..Len(segments) :
     preFill[i].speaker_name = Null /\ segments[i].speaker_name # Null}

\* C29: the gap-fill sweep decides from the speakers the segments had before
\* it: each segment it has passed has the speaker the rule gives from the
\* values before the sweep, a segment is never filled next to a segment
\* written in the same sweep, and a second sweep over the output of the
\* first changes nothing.
C29_SingleSweep ==
  /\ pc = "fillLoop" =>
       /\ \A i \in 1..fillIdx : segments[i].speaker_name = FillFromBefore(i)
       /\ \A i \in Filled : (i - 1) \notin Filled /\ (i + 1) \notin Filled
  /\ pc \in {"fillLoop", "filledAgain"} /\ fillPass = 2 => segments = preFill

\* The second sweep is over, and the first had filled a gap.
C29_Witness ==
  /\ pc = "filledAgain"
  /\ \E i \in 1..Len(segments) :
       /\ segments[i].speaker_name = "A"
       /\ segments[i].transcript_text = TextBC
       /\ segments[i].duration_seconds = 1

\* ------------------------------------------- claims on the end of a segment

\* The "end" of the simplified output: video_seconds + duration_seconds.
SimplifiedEnd(i) == segments[i].video_seconds + segments[i].duration_seconds

\* The fraction of the cue's end less the fraction of its start, in ms.
FractionShift(i) == (cues[i].end % MsPerSecond) - (cues[i].start % MsPerSecond)

\* C27 as stated: for a cue with end >= start, video_seconds +
\* duration_seconds is the whole second timestamp_end encodes: floor(start) +
\* round(end - start) = floor(end).
C27_AsStated ==
  \A i \in 1..Len(segments) :
    cues[i].end >= cues[i].start =>
      /\ SimplifiedEnd(i) = Floor(cues[i].end)
      /\ segments[i].timestamp_end = SecondsToHHMMSS(SimplifiedEnd(i) * MsPerSecond)

\* C27 (amended): timestamp_end encodes floor(end), and video_seconds +
\* duration_seconds is within one second of it: equal when the fraction of
\* end less the fraction of start lies in [-0.5, 0.5), one second later when
\* it is 0.5 or more, one second earlier when it is below -0.5.
C27_EndWithinOneSecond ==
  \A i \in 1..Len(segments) :
    cues[i].end >= cues[i].start =>
      /\ segments[i].timestamp_end = SecondsToHHMMSS(Floor(cues[i].end) * MsPerSecond)
      /\ SimplifiedEnd(i) - Floor(cues[i].end) =
           (IF FractionShift(i) >= 500 THEN 1
            ELSE IF FractionShift(i) < 0 - 500 THEN 0 - 1
            ELSE 0)

\* One segment ends a second late, another a second early.
C27_Witness ==
  /\ pc = "aligned"
  /\ \E i \in 1..Len(segments) : SimplifiedEnd(i) = Floor(cues[i].end) + 1
  /\ \E i \in 1..Len(segments) : SimplifiedEnd(i) = Floor(cues[i].end) - 1

\* -------------------------------------------- claims on parseVTT's progress

\* C30: parseVTT terminates on every payload: in every state of the cue loop
\* with lines left, the iteration to come leaves the line index strictly
\* larger than it finds it and not beyond the number of lines, whatever the
\* lines are (empty lines and comments, a cue identifier, an arrow line that
\* is no interval, an interval with or without a body); with no lines left
\* the loop is over, and parseVTT returns with every line consumed.
C30_Terminates ==
  /\ pc \in {"parseVTT", "cueLoop", "parsed"}
  /\ pc = "cueLoop" /\ lineIdx < Len(lines) =>
       LET after == ParseBlock(lines, lineIdx, vttCues)
       IN  lineIdx < after.i /\ after.i <= Len(lines)
  /\ pc = "parsed" => lineIdx >= Len(lines)

\* parseVTT has returned from a payload whose last lines are a cue identifier
\* and an interval without a body.
C30_Witness ==
  /\ pc = "parsed"
  /\ Len(lines) = 4
  /\ lines[1] = Signature
  /\ lines[2] = <<>>
  /\ lines[3] = <<"a">>
  /\ TimingMatch(lines[4]).matched
  /\ lineIdx = 4

\* ---------------------------------------------------- claims on withRetry

\* C21: withRetry invokes the operation at most maxRetries times and never
\* after an invocation has succeeded; it returns the result of that
\* invocation; the k-th wait, after the k-th failure with k < maxRetries, is
\* baseDelay * 2^(k-1); and after the maxRetries-th failure it throws that
\* failure's error with no wait behind it.
C21_Retry ==
  /\ Len(calls) <= maxRetries
  /\ \A k \in 1..(Len(calls) - 1) : ~calls[k].ok
  /\ \A k \in 1..Len(waits) : waits[k] = baseDelay * 2^(k - 1)
  /\ pc = "withRetry" => Len(waits) = Len(calls)
  /\ pc = "retryBackoff" => Len(waits) = Len(calls) - 1 /\ Len(calls) < maxRetries
  /\ pc = "retryReturned" =>
       /\ calls[Len(calls)].ok
       /\ retried = [kind |-> "returned", value |-> calls[Len(calls)].value]
       /\ Len(waits) = Len(calls) - 1
  /\ Len(calls) > 0 /\ calls[Len(calls)].ok => pc = "retryReturned"
  /\ pc = "retryThrew" /\ maxRetries >= 1 =>
       /\ Len(calls) = maxRetries
       /\ ~calls[maxRetries].ok
       /\ retried = [kind |-> "threw", value |-> calls[maxRetries].value]
       /\ Len(waits) = maxRetries - 1

\* Three attempts failed, the last with another error than the first; the
\* waits were 1000 ms and 2000 ms.
C21_Witness ==
  /\ pc = "retryThrew"
  /\ maxRetries = 3
  /\ baseDelay = 1000
  /\ waits = <<1000, 2000>>
  /\ calls[1].value # calls[3].value
  /\ retried.value = calls[3].value

\* ---------------------------------------------- claims on the rate limit

\* C24: of requests sent one after another through one HttpClient, each is
\* released at least rateLimitDelay ms after the one before it:
\* lastRequestTime of a request is never less than rateLimitDelay above
\* lastRequestTime of the previous request.
C24_RateLimit ==
  /\ \A n \in 2..Len(releases) : releases[n] - releases[n - 1] >= rateLimitDelay
  /\ Len(releases) > 0 => lastRequestTime = releases[Len(releases)]

\* The second request came early, waited, and was released exactly
\* rateLimitDelay after the first; the third came late and did not wait.
C24_Witness ==
  /\ Len(releases) = 3
  /\ rateLimitDelay = 3
  /\ releases[2] = wakeAt
  /\ releases[2] - releases[1] = 3
  /\ releases[3] - releases[2] > 3

\* ------------------------------------------------------ claims on batches

\* The calls whose result is a failure.
Failures == {n \in 1..Len(results) : ~results[n].success}

\* C22: scrapeMultiple handles the URLs in the given order and returns one
\* result per handled URL, in that order; without continueOnError the first
\* failure ends the batch, so a failure is the last result and the URLs
\* behind it are not handled; with continueOnError every URL is handled and
\* there are as many results as URLs.
C22_Batch ==
  /\ Len(results) = Len(callLog)
  /\ Len(results) <= Len(agendaUrls)
  /\ \A n \in 1..Len(results) :
       /\ callLog[n].url = agendaUrls[n]
       /\ results[n].success => results[n].meetingId # Pop(agendaUrls[n])
                                  \/ callLog[n].env.page = "future"
       /\ ~results[n].success => results[n].meetingId = Pop(agendaUrls[n])
  /\ pc = "scrapeMultiple" => urlIdx = Len(results)
  /\ ~options.continueOnError =>
       /\ Failures \subseteq {Len(results)}
       /\ Failures # {} => pc = "batchDone"
       /\ pc = "batchDone" /\ Failures = {} => Len(results) = Len(agendaUrls)
  /\ options.continueOnError /\ pc = "batchDone" => Len(results) = Len(agendaUrls)

\* Without continueOnError the second of three URLs failed and the third was
\* not handled.
C22_Witness ==
  /\ pc = "batchDone"
  /\ ~options.continueOnError
  /\ Len(agendaUrls) = 3
  /\ Len(results) = 2
  /\ results[1].success
  /\ ~results[2].success

\* C23: with skipExisting, a call of scrapeAgenda that finds the output file
\* of its meeting id returns success = true with transcriptSegments = 0, calls
\* neither resolveAndDownloadVTT nor fs.writeFile, and leaves every file as
\* it was; and with skipExisting no call changes a file that exists, so a
\* file stays as the run that wrote it left it.
C23_SkipExisting ==
  /\ \A n \in 1..Len(callLog) :
       LET e == callLog[n]
       IN  /\ options.skipExisting /\ e.existed =>
                /\ results[n].success
                /\ results[n].transcriptSegments = 0
                /\ ~e.resolveCalled
                /\ ~e.wrote
                /\ e.filesAfter = e.filesBefore
           /\ options.skipExisting =>
                \A f \in FileNames :
                  e.filesBefore[f] # Absent => e.filesAfter[f] = e.filesBefore[f]
           /\ \A f \in FileNames : e.filesBefore[f] # Absent => files[f] # Absent
  /\ options.skipExisting =>
       \A f \in FileNames : \A n \in 1..Len(callLog) :
         callLog[n].filesAfter[f] # Absent => files[f] = callLog[n].filesAfter[f]

\* With skipExisting the first call wrote a transcript, and the second, for
\* the same meeting, found it and left it.
C23_Witness ==
  /\ options.skipExisting
  /\ Len(callLog) >= 2
  /\ callLog[1].wrote
  /\ results[1].videoAvailable
  /\ callLog[2].existed
  /\ results[2].outputFile = results[1].outputFile
  /\ files[results[1].outputFile].writer = 1

============================================================================
